---- MODULE Spec2Model ----
(***************************************************************************)
(* A model of the monitoring exporter of chain-of-geths                    *)
(* (src/chain-of-geths/monitoring/exporter/app.py): the Poller's round,    *)
(* its node sampling, lag computation, stage checklist and synthetic       *)
(* phase rows, over an environment of JSON-RPC answers, beacon answers     *)
(* and files of the output directory.                                      *)
(*                                                                         *)
(* Representation choices:                                                 *)
(*  - a JSON value is a record with a kind field k;                        *)
(*  - a string that is parsed is a sequence of one-character strings;      *)
(*  - a float percentage is the exact fraction [n, d] in lowest terms;     *)
(*  - a sort key is held in hundredths (1.50 is 150);                      *)
(*  - the gauges labelled by node are held by label: gauges[label] is the   *)
(*    record of the values last set for that label, Unset where a gauge    *)
(*    has no series for the label.                                         *)
(***************************************************************************)
EXTENDS Integers, Sequences, FiniteSets, TLC

(***************************************************************************)
(* Program constants and configuration defaults                            *)
(***************************************************************************)
GETH_V1_0_3_TARGET_BLOCK == 1149999
cutoff_block == 1919999
min_export_bytes == 16777216
backfill_activity_window_seconds == 300

V1167 == "Geth v1.16.7"
V1116 == "Geth v1.11.6"
V1100 == "Geth v1.10.0"
V1925 == "Geth v1.9.25"
V136 == "Geth v1.3.6"
V103 == "Geth v1.0.3"
legacy_nodes == {V1100, V1925, V136, V103}
lighthouse_label == "Lighthouse v8.0.1"

(***************************************************************************)
(* Bounds of the model                                                     *)
(***************************************************************************)
\* The configured poll interval in seconds (POLL_INTERVAL_SECONDS).
interval_seconds == 400
\* The clock value after which no further round is started.
MaxTime == 800

(***************************************************************************)
(* JSON values                                                             *)
(***************************************************************************)
JNull == [k |-> "null"]
JInt(n) == [k |-> "int", n |-> n]
JBool(b) == [k |-> "bool", b |-> b]
JStr(s) == [k |-> "str", s |-> s]
JObj(f) == [k |-> "obj", f |-> f]

\* dict.get(key): the value, or None when the key is absent.
Get(obj, key) == IF key \in DOMAIN obj.f THEN obj.f[key] ELSE JNull

(***************************************************************************)
(* Results of operations that may raise                                    *)
(***************************************************************************)
Ok(v) == [ok |-> TRUE, v |-> v, err |-> ""]
Raise(e) == [ok |-> FALSE, v |-> 0, err |-> e]

Max(a, b) == IF a >= b THEN a ELSE b

(***************************************************************************)
(* Strings: str.strip(), str.lower(), int(v), int(v, 16)                   *)
(***************************************************************************)
\* The value of each digit character.
DigitMap ==
    "0" :> 0 @@ "1" :> 1 @@ "2" :> 2 @@ "3" :> 3 @@ "4" :> 4 @@ "5" :> 5 @@ "6" :> 6
    @@ "7" :> 7 @@ "8" :> 8 @@ "9" :> 9 @@ "a" :> 10 @@ "b" :> 11 @@ "c" :> 12
    @@ "d" :> 13 @@ "e" :> 14 @@ "f" :> 15
LowerMap ==
    "A" :> "a" @@ "B" :> "b" @@ "C" :> "c" @@ "D" :> "d" @@ "E" :> "e" @@ "F" :> "f"
    @@ "X" :> "x"

LowerChar(c) == IF c \in DOMAIN LowerMap THEN LowerMap[c] ELSE c

Lower(s) == [i \in 1..Len(s) |-> LowerChar(s[i])]

RECURSIVE StripLeft(_)
StripLeft(s) == IF s # <<>> /\ Head(s) = " " THEN StripLeft(Tail(s)) ELSE s

RECURSIVE StripRight(_)
StripRight(s) ==
    IF s # <<>> /\ s[Len(s)] = " " THEN StripRight(SubSeq(s, 1, Len(s) - 1)) ELSE s

Strip(s) == StripRight(StripLeft(s))

IsDigitOf(c, base) == c \in DOMAIN DigitMap /\ DigitMap[c] < base
DigitValue(c) == DigitMap[c]

RECURSIVE DigitsValue(_, _, _)
DigitsValue(s, base, acc) ==
    IF s = <<>> THEN acc
    ELSE DigitsValue(Tail(s), base, acc * base + DigitValue(Head(s)))

\* int(v, base) on an unsigned digit string; ValueError on anything else.
ParseDigits(s, base) ==
    IF s # <<>> /\ \A i \in 1..Len(s) : IsDigitOf(s[i], base)
    THEN Ok(DigitsValue(s, base, 0))
    ELSE Raise("ValueError")

StartsWith0x(s) == Len(s) >= 2 /\ s[1] = "0" /\ s[2] = "x"

\* hex_to_int as it would be if None were rejected like any other type.
hex_to_int_strict(value) ==
    IF value.k = "int" THEN Ok(value.n)
    ELSE IF value.k = "bool" THEN Ok(IF value.b THEN 1 ELSE 0)
    ELSE IF value.k = "str" THEN
        LET v == Lower(Strip(value.s)) IN
        IF StartsWith0x(v) THEN ParseDigits(SubSeq(v, 3, Len(v)), 16)
        ELSE ParseDigits(v, 10)
    ELSE Raise("TypeError")

hex_to_int(value) ==
    IF value.k = "null" THEN Ok(0)
    ELSE IF value.k = "int" THEN Ok(value.n)
    ELSE IF value.k = "bool" THEN Ok(IF value.b THEN 1 ELSE 0)
    ELSE IF value.k = "str" THEN
        LET v == Lower(Strip(value.s)) IN
        IF StartsWith0x(v) THEN ParseDigits(SubSeq(v, 3, Len(v)), 16)
        ELSE ParseDigits(v, 10)
    ELSE Raise("TypeError")

(***************************************************************************)
(* Percentages and the progress label                                      *)
(***************************************************************************)
RECURSIVE Gcd(_, _)
Gcd(a, b) == IF b = 0 THEN a ELSE Gcd(b, a % b)

Frac(n, d) == LET g == Gcd(n, d) IN [n |-> n \div g, d |-> d \div g]
Zero == [n |-> 0, d |-> 1]

\* (cur * 100.0 / target) if target > 0 else 0.0
Percent(cur, target) == IF target > 0 THEN Frac(cur * 100, target) ELSE Zero

\* The value printed by the format {pct:.1f}, in tenths, rounding the exact
\* quotient to the nearest tenth (ties to even).
Tenths(cur, target) ==
    IF target > 0 THEN
        LET q == (cur * 1000) \div target
            r == (cur * 1000) % target
        IN  IF 2 * r > target THEN q + 1
            ELSE IF 2 * r < target THEN q
            ELSE IF q % 2 = 0 THEN q ELSE q + 1
    ELSE 0

TextLabel(t) == [text |-> t, cur |-> 0, target |-> 0, tenths |-> 0]
RatioLabel(cur, target) ==
    [text |-> "ratio", cur |-> cur, target |-> target, tenths |-> Tenths(cur, target)]
\* f"{cur}/{target} ({pct:.1f}%)" if target > 0 else "0/0 (0.0%)"
ProgressLabel(cur, target) ==
    IF target > 0 THEN RatioLabel(cur, target) ELSE RatioLabel(0, 0)

(***************************************************************************)
(* Startup: the environment variables, parse_node_urls, the Poller         *)
(***************************************************************************)
RECURSIVE Find(_, _, _)
\* The first index from i on at which c occurs in s, or 0.
Find(s, c, i) ==
    IF i > Len(s) THEN 0 ELSE IF s[i] = c THEN i ELSE Find(s, c, i + 1)

RECURSIVE Split(_, _)
\* s.split(sep)
Split(s, sep) ==
    LET i == Find(s, sep, 1) IN
    IF i = 0 THEN <<s>>
    ELSE <<SubSeq(s, 1, i - 1)>> \o Split(SubSeq(s, i + 1, Len(s)), sep)

\* int(raw) for the environment: surrounding blanks are accepted.
EnvInt(raw) == ParseDigits(Strip(raw), 10)

RECURSIVE Pow10(_)
\* 10 to the power k.
Pow10(k) == IF k = 0 THEN 1 ELSE 10 * Pow10(k - 1)

\* float(raw) on digits with at most one point, as an exact fraction.
EnvFloat(raw) ==
    LET v == Strip(raw)
        i == Find(v, ".", 1)
        digits == IF i = 0 THEN v ELSE SubSeq(v, 1, i - 1) \o SubSeq(v, i + 1, Len(v))
        n == ParseDigits(digits, 10)
    IN  IF n.ok THEN Ok(Frac(n.v, IF i = 0 THEN 1 ELSE Pow10(Len(v) - i)))
        ELSE Raise("ValueError")

\* __env_int(name, default), raw being os.environ.get(name, "")
_env_int(raw, default) ==
    IF raw = <<>> THEN Ok(default)
    ELSE LET n == EnvInt(raw) IN IF n.ok THEN n ELSE Ok(default)

\* __env_float(name, default)
_env_float(raw, default) ==
    IF raw = <<>> THEN Ok(default)
    ELSE LET x == EnvFloat(raw) IN IF x.ok THEN x ELSE Ok(default)

\* ParseChunk as it would be if an empty chunk were an error.
ParseChunkStrict(raw_chunk) ==
    LET chunk == Strip(raw_chunk)
        i == Find(chunk, "=", 1)
        name == Strip(SubSeq(chunk, 1, i - 1))
        url == Strip(SubSeq(chunk, i + 1, Len(chunk)))
    IN  IF i = 0 THEN Raise("ValueError")
        ELSE IF name = <<>> \/ url = <<>> THEN Raise("ValueError")
        ELSE Ok(<<[name |-> name, url |-> url]>>)

\* The body of the loop of parse_node_urls for one chunk: nothing for an
\* empty chunk, a ValueError for one without "=" or with an empty name or
\* url, else the pair.
ParseChunk(raw_chunk) ==
    LET chunk == Strip(raw_chunk)
        i == Find(chunk, "=", 1)
        name == Strip(SubSeq(chunk, 1, i - 1))
        url == Strip(SubSeq(chunk, i + 1, Len(chunk)))
    IN  IF chunk = <<>> THEN Ok(<<>>)
        ELSE IF i = 0 THEN Raise("ValueError")
        ELSE IF name = <<>> \/ url = <<>> THEN Raise("ValueError")
        ELSE Ok(<<[name |-> name, url |-> url]>>)

RECURSIVE ParseChunks(_)
ParseChunks(chunks) ==
    IF chunks = <<>> THEN Ok(<<>>)
    ELSE LET first == ParseChunk(Head(chunks)) IN
         IF ~first.ok THEN first
         ELSE LET rest == ParseChunks(Tail(chunks)) IN
              IF ~rest.ok THEN rest ELSE Ok(first.v \o rest.v)

parse_node_urls(spec) ==
    LET s == Strip(spec) IN
    IF s = <<>> THEN Ok(<<>>) ELSE ParseChunks(Split(s, ","))

\* Poller.__init__: the check of the node list.
Poller(node_list, interval) ==
    IF node_list = <<>> THEN Raise("ValueError")
    ELSE Ok([nodes |-> node_list, interval_seconds |-> interval])

\* main() up to poller.start(), and the cutoff that _run reads as it starts:
\* the port, the interval, the node list and the Poller, the first exception
\* ending it.
main(environ) ==
    LET port == _env_int(environ.PORT, 9100)
        interval == _env_float(environ.POLL_INTERVAL_SECONDS, Frac(10, 1))
        node_urls == parse_node_urls(environ.NODE_URLS)
    IN  IF ~port.ok THEN port
        ELSE IF ~interval.ok THEN interval
        ELSE IF ~node_urls.ok THEN node_urls
        ELSE LET poller == Poller(node_urls.v, interval.v) IN
             IF ~poller.ok THEN poller
             ELSE Ok([port |-> port.v, poller |-> poller.v,
                      cutoff_block |-> _env_int(environ.CUTOFF_BLOCK, 1919999).v])

(***************************************************************************)
(* The JSON-RPC client                                                     *)
(***************************************************************************)
\* What the HTTP exchange of one request yields: a transport error, a non-2xx
\* status, a JSON-RPC error envelope, or a result.
ReplyKinds == {"transport", "http", "rpcerror", "result"}
Reply(kind, result) == [kind |-> kind, result |-> result]
Result(v) == Reply("result", v)
Unreachable == Reply("transport", JNull)

rpc_call(reply) ==
    IF reply.kind = "result" THEN Ok(reply.result) ELSE Raise("RpcError")

rpc_call_optional(reply) ==
    LET r == rpc_call(reply) IN IF r.ok THEN r.v ELSE JNull

(***************************************************************************)
(* Files of the output directory                                           *)
(***************************************************************************)
\* A file is absent, or present with what its reads yield.
Absent == [exists |-> FALSE, readable |-> FALSE, size |-> 0, json |-> JNull, lines |-> <<>>]
Marker == [exists |-> TRUE, readable |-> TRUE, size |-> 0, json |-> JNull, lines |-> <<>>]
Unreadable == [exists |-> TRUE, readable |-> FALSE, size |-> 0, json |-> JNull, lines |-> <<>>]
SizedFile(n) == [exists |-> TRUE, readable |-> TRUE, size |-> n, json |-> JNull, lines |-> <<>>]
JsonFile(j) == [exists |-> TRUE, readable |-> TRUE, size |-> 0, json |-> j, lines |-> <<>>]
LogFile(ls) == [exists |-> TRUE, readable |-> TRUE, size |-> 0, json |-> JNull, lines |-> ls]

\* Path.exists()
Exists(file) == file.exists

(***************************************************************************)
(* Gauges                                                                  *)
(***************************************************************************)
Put(fn, key, v) == [x \in DOMAIN fn \cup {key} |-> IF x = key THEN v ELSE fn[x]]

Empty == [x \in {} |-> 0]

\* The value that stands for "no series".
Unset == 0 - 1
UnsetPercent == [n |-> Unset, d |-> 1]

\* A label for which no gauge was set.
NoSeries ==
    [g_up |-> Unset, g_block |-> Unset, g_effective_head |-> Unset, g_peers |-> Unset,
     g_syncing |-> Unset, g_sync_current |-> Unset, g_sync_highest |-> Unset,
     g_sync_remaining |-> Unset, g_lag_vs_top |-> Unset, g_sort_key |-> Unset,
     g_sync_target |-> Unset, g_sync_percent |-> UnsetPercent]

NoGauges == Empty

Series(g, label) == IF label \in DOMAIN g THEN g[label] ELSE NoSeries

\* One series of g_sync_progress_info: its progress label and its value.
Info(label, value) == [progress |-> label, value |-> value]

(***************************************************************************)
(* Sampling one node (the body of the loop over self.nodes)                *)
(***************************************************************************)
None == [some |-> FALSE, v |-> 0]
Some(v) == [some |-> TRUE, v |-> v]

\* fixed_target as it would be if v1.16.7 kept the cutoff after the export.
fixed_target_kept(name, f) ==
    IF name = V103 THEN Some(GETH_V1_0_3_TARGET_BLOCK)
    ELSE IF name \in {V1167, V1925, V136} THEN Some(cutoff_block)
    ELSE None

fixed_target(name, f) ==
    IF name = V103 THEN Some(GETH_V1_0_3_TARGET_BLOCK)
    ELSE IF name = V1167
         THEN (IF ~Exists(f.export_done_path) THEN Some(cutoff_block) ELSE None)
    ELSE IF name = V1925 THEN Some(cutoff_block)
    ELSE IF name = V136 THEN Some(cutoff_block)
    ELSE None

\* What one iteration holds for its node: the node's series (series), its
\* series of g_sync_progress_info (info), its entries of node_up,
\* node_syncing, node_effective_head and peers, and its entry of blocks, if
\* any. The iteration starts from the series the earlier rounds left.
NodeStart(old, idx) ==
    [series |-> [old EXCEPT !.g_sort_key = idx * 100],
     info |-> Info(TextLabel(""), 0),
     node_up |-> FALSE, node_syncing |-> FALSE, node_effective_head |-> 0,
     peers |-> 0, blocks |-> None, sent |-> <<>>]

\* GatedNode as it would be if the gating left the peer count alone.
GatedNodeKeepingPeers(r) ==
    [r EXCEPT
        !.series = [@ EXCEPT !.g_up = 0, !.g_block = 0, !.g_syncing = 0,
                             !.g_sync_current = 0, !.g_sync_highest = 0,
                             !.g_sync_remaining = 0, !.g_effective_head = 0,
                             !.g_sync_target = 0, !.g_sync_percent = Zero],
        !.info = Info(TextLabel("gated (waiting for seed)"), 0),
        !.node_up = FALSE, !.node_syncing = FALSE, !.node_effective_head = 0,
        !.peers = 0]

\* The branch taken while the seed done-marker is missing (Geth v1.11.6).
GatedNode(r) ==
    [r EXCEPT
        !.series = [@ EXCEPT !.g_up = 0, !.g_block = 0, !.g_peers = 0, !.g_syncing = 0,
                             !.g_sync_current = 0, !.g_sync_highest = 0,
                             !.g_sync_remaining = 0, !.g_effective_head = 0,
                             !.g_sync_target = 0, !.g_sync_percent = Zero],
        !.info = Info(TextLabel("gated (waiting for seed)"), 0),
        !.node_up = FALSE, !.node_syncing = FALSE, !.node_effective_head = 0,
        !.peers = 0]

\* NodeDown as it would be if the except branch left the progress gauges alone.
NodeDownKeepingProgress(r) ==
    [r EXCEPT
        !.series = [@ EXCEPT !.g_up = 0, !.g_syncing = 0],
        !.info = Info(TextLabel("down"), 0),
        !.node_up = FALSE, !.node_syncing = FALSE, !.node_effective_head = 0,
        !.peers = 0]

\* NodeDown as it would be if the except branch did not write target and percent.
NodeDownKeepingTarget(r) ==
    [r EXCEPT
        !.series = [@ EXCEPT !.g_up = 0, !.g_syncing = 0, !.g_sync_current = 0,
                             !.g_sync_highest = 0, !.g_sync_remaining = 0,
                             !.g_effective_head = 0],
        !.info = Info(TextLabel("down"), 0),
        !.node_up = FALSE, !.node_syncing = FALSE, !.node_effective_head = 0,
        !.peers = 0]

\* NodeDown as it would be if the except branch zeroed block and peers.
NodeDownZeroingHeight(r) ==
    [r EXCEPT
        !.series = [@ EXCEPT !.g_up = 0, !.g_block = 0, !.g_peers = 0, !.g_syncing = 0,
                             !.g_sync_current = 0, !.g_sync_highest = 0,
                             !.g_sync_remaining = 0, !.g_effective_head = 0,
                             !.g_sync_target = 0, !.g_sync_percent = Zero],
        !.info = Info(TextLabel("down"), 0),
        !.node_up = FALSE, !.node_syncing = FALSE, !.node_effective_head = 0,
        !.peers = 0]

\* The except branch: the node is marked down, block and peers are not written.
NodeDown(r) ==
    [r EXCEPT
        !.series = [@ EXCEPT !.g_up = 0, !.g_syncing = 0, !.g_sync_current = 0,
                             !.g_sync_highest = 0, !.g_sync_remaining = 0,
                             !.g_effective_head = 0, !.g_sync_target = 0,
                             !.g_sync_percent = Zero],
        !.info = Info(TextLabel("down"), 0),
        !.node_up = FALSE, !.node_syncing = FALSE, !.node_effective_head = 0,
        !.peers = 0]

\* What is written once height and peer count are converted.
NodeUp(r, block_num, peer_count) ==
    [r EXCEPT
        !.series = [@ EXCEPT !.g_up = 1, !.g_block = block_num, !.g_peers = peer_count],
        !.node_up = TRUE, !.blocks = Some(block_num), !.peers = peer_count]

\* Remaining without the clamp at 0.
RemainingSigned(target, head) == target - head

\* max(0, target - head), the value of g_sync_remaining of a sampled node.
Remaining(target, head) == Max(0, target - head)

\* NotSyncing as it would be without the reset of the two sync counters.
NotSyncingKeepingCounters(r, block_num, ft) ==
    LET target == IF ft.some THEN ft.v ELSE block_num IN
    [r EXCEPT
        !.series = [@ EXCEPT !.g_syncing = 0,
                             !.g_effective_head = block_num,
                             !.g_sync_remaining = Remaining(target, block_num),
                             !.g_sync_target = target,
                             !.g_sync_percent = Percent(block_num, target)],
        !.info = Info(ProgressLabel(block_num, target), 1),
        !.node_syncing = FALSE, !.node_effective_head = block_num]

\* eth_syncing is None or False.
NotSyncing(r, block_num, ft) ==
    LET target == IF ft.some THEN ft.v ELSE block_num IN
    [r EXCEPT
        !.series = [@ EXCEPT !.g_syncing = 0, !.g_sync_current = 0, !.g_sync_highest = 0,
                             !.g_effective_head = block_num,
                             !.g_sync_remaining = Remaining(target, block_num),
                             !.g_sync_target = target,
                             !.g_sync_percent = Percent(block_num, target)],
        !.info = Info(ProgressLabel(block_num, target), 1),
        !.node_syncing = FALSE, !.node_effective_head = block_num]

\* The effective head of a syncing node.
EffectiveHead(name, ft, block_num, cur) ==
    IF name = V1167 /\ ft = Some(cutoff_block) THEN block_num ELSE Max(block_num, cur)

\* SyncTarget as it would be if the reported highestBlock were trusted.
SyncTargetReported(ft, hi, eff) == IF ft.some THEN ft.v ELSE hi

\* fixed_target if fixed_target is not None else max(hi, eff)
SyncTarget(ft, hi, eff) == IF ft.some THEN ft.v ELSE Max(hi, eff)

\* eth_syncing is an object with currentBlock cur and highestBlock hi.
Syncing(r, name, block_num, cur, hi, ft) ==
    LET eff == EffectiveHead(name, ft, block_num, cur)
        target == SyncTarget(ft, hi, eff)
    IN
    [r EXCEPT
        !.series = [@ EXCEPT !.g_syncing = 1, !.g_sync_current = cur, !.g_sync_highest = hi,
                             !.g_effective_head = eff,
                             !.g_sync_remaining = Remaining(target, eff),
                             !.g_sync_target = target,
                             !.g_sync_percent = Percent(eff, target)],
        !.info = Info(RatioLabel(eff, target), 1),
        !.node_syncing = TRUE, !.node_effective_head = eff]

\* The probes as they would be sent if a failed eth_blockNumber did not end them.
ProbeSequenceAll(block_hex) == <<"eth_blockNumber", "net_peerCount", "eth_syncing">>

\* The requests of one iteration, in order: eth_blockNumber, and the two
\* optional probes once it has yielded a value.
ProbeSequence(block_hex) ==
    IF block_hex.k = "null" THEN <<"eth_blockNumber">>
    ELSE <<"eth_blockNumber", "net_peerCount", "eth_syncing">>

\* One iteration of "for idx, (name, url) in enumerate(self.nodes, start=1)":
\* old is the node's series before the round, replies what the node answers
\* to each method, f the files.
SampleNode(old, idx, name, replies, f) ==
    LET r0 == NodeStart(old, idx) IN
    IF name = V1116 /\ ~Exists(f.seed_done_path) THEN GatedNode(r0)
    ELSE
    LET ft == fixed_target(name, f)
        block_hex == rpc_call_optional(replies.eth_blockNumber)
        rq == [r0 EXCEPT !.sent = ProbeSequence(block_hex)]
    IN
    IF block_hex.k = "null" THEN NodeDown(rq)
    ELSE
    LET peers_hex == rpc_call_optional(replies.net_peerCount)
        syncing == rpc_call_optional(replies.eth_syncing)
        block_num == hex_to_int(block_hex)
        peer_count == hex_to_int(peers_hex)
    IN
    IF ~block_num.ok \/ ~peer_count.ok THEN NodeDown(rq)
    ELSE
    LET r1 == NodeUp(rq, block_num.v, peer_count.v) IN
    IF syncing.k = "null" \/ (syncing.k = "bool" /\ ~syncing.b)
    THEN NotSyncing(r1, block_num.v, ft)
    ELSE IF syncing.k # "obj" THEN NodeDown(r1)
    ELSE
    LET cur == hex_to_int(Get(syncing, "currentBlock"))
        hi == hex_to_int(Get(syncing, "highestBlock"))
    IN
    IF ~cur.ok \/ ~hi.ok THEN NodeDown(r1)
    ELSE Syncing(r1, name, block_num.v, cur.v, hi.v, ft)

NodeSet(nodelist) == {nodelist[i] : i \in 1..Len(nodelist)}
IndexOf(nodelist, name) == CHOOSE i \in 1..Len(nodelist) : nodelist[i] = name

\* The loop over self.nodes; the names of the list are distinct.
SampleNodes(g, nodelist, answers, f) ==
    [name \in NodeSet(nodelist) |->
        SampleNode(Series(g, name), IndexOf(nodelist, name), name, answers[name], f)]

\* blocks: Dict[str, int] at the end of the loop.
Blocks(samples) ==
    [name \in {n \in DOMAIN samples : samples[n].blocks.some} |-> samples[name].blocks.v]

\* LagValue without the clamp at 0.
LagValueSigned(old, name, top_name, blocks) ==
    IF top_name \in DOMAIN blocks /\ name \in DOMAIN blocks
    THEN blocks[top_name] - blocks[name]
    ELSE old

\* "Lag metrics: compute after all blocks are fetched": the value
\* g_lag_vs_top takes for a node, old being its value before.
LagValue(old, name, top_name, blocks) ==
    IF top_name \in DOMAIN blocks /\ name \in DOMAIN blocks
    THEN Max(0, blocks[top_name] - blocks[name])
    ELSE old

(***************************************************************************)
(* Conversions of JSON values by Python's int(), bool() and "or"           *)
(***************************************************************************)
\* int(x)
PyInt(j) ==
    IF j.k = "int" THEN Ok(j.n)
    ELSE IF j.k = "bool" THEN Ok(IF j.b THEN 1 ELSE 0)
    ELSE IF j.k = "str" THEN ParseDigits(Strip(j.s), 10)
    ELSE Raise("TypeError")

\* bool(x)
Truthy(j) ==
    IF j.k = "null" THEN FALSE
    ELSE IF j.k = "int" THEN j.n # 0
    ELSE IF j.k = "bool" THEN j.b
    ELSE IF j.k = "str" THEN j.s # <<>>
    ELSE DOMAIN j.f # {}

\* x or y
PyOr(x, y) == IF Truthy(x) THEN x ELSE y

(***************************************************************************)
(* Log tails and the patterns searched in them                             *)
(***************************************************************************)
\* A log is a sequence of lines; a line has a form and the text num that the
\* group ([0-9,]+) of a pattern captures in it:
\*   "importing"       ... Importing blockchain ...
\*   "segment"         Imported new chain segment   number=<num>
\*   "segment_fields"  Imported new chain segment   blocks=1 ... number=<num>
\*   "old"             imported 2500 block(s) ... #<num>
\*   "exporting"       Exporting blocks   exported=<num>
\*   "other"           any other line
LineForms == {"importing", "segment", "segment_fields", "old", "exporting", "other"}
Line(form, num) == [form |-> form, num |-> num]

\* read_text(errors="ignore")[-500000:]; the logs of the model are shorter
\* than the window.
ReadTail(file) == IF file.readable THEN Ok(file.lines) ELSE Raise("OSError")

RECURSIVE Captures(_, _)
\* re.findall: the captured groups of the lines whose form is in forms.
Captures(lines, forms) ==
    IF lines = <<>> THEN <<>>
    ELSE IF Head(lines).form \in forms
         THEN <<Head(lines).num>> \o Captures(Tail(lines), forms)
         ELSE Captures(Tail(lines), forms)

\* "Importing blockchain" in tail or "Imported new chain segment" in tail
MentionsImport(lines) ==
    \E i \in 1..Len(lines) : lines[i].form \in {"importing", "segment", "segment_fields"}

\* s.replace(",", "") as it would be if the grouping were kept.
KeepGrouping(s) == s

RECURSIVE Degroup(_)
\* s.replace(",", "")
Degroup(s) ==
    IF s = <<>> THEN <<>>
    ELSE IF Head(s) = "," THEN Degroup(Tail(s))
    ELSE <<Head(s)>> \o Degroup(Tail(s))

\* int(m[-1].replace(",", ""))
LastNumber(m) == ParseDigits(Degroup(m[Len(m)]), 10)

\* _read_json_file followed by int(data.get("last_done")): the value, or None.
LastDone(file) ==
    IF ~Exists(file) THEN None
    ELSE IF ~file.readable THEN None
    ELSE IF file.json.k = "obj" /\ Get(file.json, "last_done").k # "null"
         THEN LET n == PyInt(Get(file.json, "last_done")) IN
              IF n.ok THEN Some(n.v) ELSE None
    ELSE None

\* Lines 549-575: v1.9.25 import progress and v1.10.0 export progress.
ReadLegacyLogs(legacy_enabled, f) ==
    LET t925 == ReadTail(f.v925_import_log_path)
        m925 == Captures(t925.v, {"segment", "segment_fields"})
        n925 == LastNumber(m925)
        cur925 ==
            IF legacy_enabled /\ Exists(f.v925_import_log_path) /\ t925.ok
               /\ m925 # <<>> /\ n925.ok
            THEN n925.v ELSE 0
        run925 ==
            legacy_enabled /\ Exists(f.v925_import_log_path) /\ t925.ok
            /\ (m925 # <<>> => n925.ok)
            /\ cur925 > 0 /\ cur925 < cutoff_block
        t110 == ReadTail(f.v110_export_log_path)
        m110 == Captures(t110.v, {"exporting"})
        n110 == LastNumber(m110)
        cur110 ==
            IF legacy_enabled /\ Exists(f.v110_export_log_path) /\ t110.ok
               /\ m110 # <<>> /\ n110.ok
            THEN n110.v ELSE 0
    IN  [v925_import_current |-> cur925,
         v925_import_running |-> run925,
         v110_export_current |-> cur110,
         v110_export_running |-> legacy_enabled /\ Exists(f.v110_export_marker_path)]

(***************************************************************************)
(* The stage checklist                                                     *)
(***************************************************************************)
NOT_STARTED == 0
IN_PROGRESS == 1
DONE == 2

S01 == "01. Lighthouse syncing from snapshot"
S02 == "02. Lighthouse indexing/backfill"
S03 == "03. Geth v1.16.7 syncing"
S04 == "04. Geth v1.16.7 exporting data"
S05 == "05. Geth v1.11.6 importing data"
S06 == "06. Geth v1.10.0 syncing"
S07 == "07. Geth v1.10.0 exporting data"
S08 == "08. Geth v1.9.25 importing data"
S09 == "09. Geth v1.9.25 exporting data"
S10 == "10. Geth v1.3.6 importing data"
S11 == "11. Geth v1.0.3 syncing"
Stages == {S01, S02, S03, S04, S05, S06, S07, S08, S09, S10, S11}

\* dict.get(key, default)
GetOr(d, key, default) == IF key \in DOMAIN d THEN d[key] ELSE default

Stage01(lh) ==
    IF ~lh.lighthouse_up THEN NOT_STARTED
    ELSE IF lh.lighthouse_is_syncing \/ lh.lighthouse_sync_distance > 0 THEN IN_PROGRESS
    ELSE DONE

\* self._lh_backfill_last_inc_ts is not None and (now - it) <= window
BackfillRecent(last_inc_ts, now_ts) ==
    last_inc_ts.some /\ (now_ts - last_inc_ts.v) <= backfill_activity_window_seconds

Stage02(lh, last_inc_ts, now_ts) ==
    IF ~lh.lighthouse_up THEN NOT_STARTED
    ELSE IF lh.lighthouse_backfill_workers.some
         THEN (IF lh.lighthouse_backfill_workers.v > 0 \/ BackfillRecent(last_inc_ts, now_ts)
               THEN IN_PROGRESS ELSE DONE)
    ELSE IF lh.lighthouse_is_syncing \/ lh.lighthouse_sync_distance > 0 THEN IN_PROGRESS
    ELSE DONE

\* Stage03 as it would be if the reference node's liveness were not looked at.
Stage03IgnoringUp(top_name, node_up, node_syncing) ==
    IF GetOr(node_syncing, top_name, FALSE) THEN IN_PROGRESS ELSE DONE

Stage03(top_name, node_up, node_syncing) ==
    IF ~GetOr(node_up, top_name, FALSE) THEN NOT_STARTED
    ELSE IF GetOr(node_syncing, top_name, FALSE) THEN IN_PROGRESS
    ELSE DONE

Stage04(f) ==
    IF Exists(f.export_done_path) THEN DONE
    ELSE IF Exists(f.export_marker_path) THEN IN_PROGRESS
    ELSE LET export_last_done == LastDone(f.export_progress_path) IN
         IF ~export_last_done.some THEN NOT_STARTED
         ELSE IF export_last_done.v >= cutoff_block THEN DONE ELSE IN_PROGRESS

\* The else branch of stage 05: the seed log is searched for import lines.
SeedLogImport(f) ==
    LET t == ReadTail(f.seed_log_path)
        m == Captures(t.v, {"segment"})
        m2 == Captures(t.v, {"old"})
        n == LastNumber(m)
        n2 == LastNumber(m2)
    IN
    IF ~Exists(f.seed_log_path) THEN [importing |-> FALSE, import_current |-> 0]
    ELSE IF ~t.ok THEN [importing |-> FALSE, import_current |-> 0]
    ELSE IF m # <<>>
         THEN (IF n.ok THEN [importing |-> MentionsImport(t.v), import_current |-> n.v]
               ELSE [importing |-> FALSE, import_current |-> 0])
    ELSE IF m2 # <<>>
         THEN (IF n2.ok THEN [importing |-> MentionsImport(t.v), import_current |-> n2.v]
               ELSE [importing |-> FALSE, import_current |-> 0])
    ELSE [importing |-> MentionsImport(t.v), import_current |-> 0]

\* The names importing and import_current are assigned only when the seed
\* done-marker is missing; they are local to _run and keep their value from
\* one iteration of the loop to the next.
Unbound == [bound |-> FALSE, importing |-> FALSE, import_current |-> 0]

Stage05Locals(loc, f) ==
    IF Exists(f.seed_done_path) THEN loc
    ELSE LET r == SeedLogImport(f) IN
         [bound |-> TRUE, importing |-> r.importing, import_current |-> r.import_current]

Stage05(f) ==
    IF Exists(f.seed_done_path) THEN DONE
    ELSE IF Exists(f.import_marker_path) \/ SeedLogImport(f).importing THEN IN_PROGRESS
    ELSE NOT_STARTED

\* legacy_stage as it would be if DONE needed a head above the cutoff.
legacy_stage_strict(node, node_up, node_effective_head) ==
    IF ~GetOr(node_up, node, FALSE) THEN NOT_STARTED
    ELSE LET eff == GetOr(node_effective_head, node, 0) IN
         IF eff > cutoff_block THEN DONE
         ELSE IF eff > 0 THEN IN_PROGRESS
         ELSE NOT_STARTED

legacy_stage(node, node_up, node_effective_head) ==
    IF ~GetOr(node_up, node, FALSE) THEN NOT_STARTED
    ELSE LET eff == GetOr(node_effective_head, node, 0) IN
         IF eff >= cutoff_block THEN DONE
         ELSE IF eff > 0 THEN IN_PROGRESS
         ELSE NOT_STARTED

\* ExportFileOk as it would be without the size check.
ExportFileExists(file) == Exists(file)

\* exists() and stat().st_size >= min_export_bytes
ExportFileOk(file) == Exists(file) /\ file.readable /\ file.size >= min_export_bytes

v110_export_done(f) ==
    (Exists(f.v110_export_done_path) /\ ExportFileOk(f.v110_export_file_path))
    \/ Exists(f.v925_import_done_path)

Stage07(f, logs) ==
    IF v110_export_done(f) THEN DONE
    ELSE IF logs.v110_export_running \/ logs.v110_export_current > 0 THEN IN_PROGRESS
    ELSE NOT_STARTED

\* Stage08 as it would be if only a readable import log counted as activity.
Stage08ReadableLog(f, logs, node_up, node_effective_head) ==
    LET v925_node_head == GetOr(node_effective_head, V1925, 0) IN
    IF Exists(f.v925_import_done_path) THEN DONE
    ELSE IF logs.v925_import_current > 0
            \/ (Exists(f.v925_import_log_path) /\ f.v925_import_log_path.readable)
         THEN (IF logs.v925_import_current >= cutoff_block \/ v925_node_head >= cutoff_block
               THEN DONE ELSE IN_PROGRESS)
    ELSE legacy_stage(V1925, node_up, node_effective_head)

Stage08(f, logs, node_up, node_effective_head) ==
    LET v925_node_head == GetOr(node_effective_head, V1925, 0) IN
    IF Exists(f.v925_import_done_path) THEN DONE
    ELSE IF logs.v925_import_current > 0 \/ Exists(f.v925_import_log_path)
         THEN (IF logs.v925_import_current >= cutoff_block \/ v925_node_head >= cutoff_block
               THEN DONE ELSE IN_PROGRESS)
    ELSE legacy_stage(V1925, node_up, node_effective_head)

v136_export_done(f) ==
    Exists(f.v136_export_done_path) /\ ExportFileOk(f.v136_export_file_path)

\* Stage09 as it would be if the in-progress marker came before the progress file.
Stage09MarkerFirst(f) ==
    LET v136_export_last_done == LastDone(f.v136_export_progress_path) IN
    IF v136_export_done(f) THEN DONE
    ELSE IF Exists(f.v136_export_marker_path) THEN IN_PROGRESS
    ELSE IF v136_export_last_done.some
         THEN (IF v136_export_last_done.v >= cutoff_block THEN DONE ELSE IN_PROGRESS)
    ELSE NOT_STARTED

Stage09(f) ==
    LET v136_export_last_done == LastDone(f.v136_export_progress_path) IN
    IF v136_export_done(f) THEN DONE
    ELSE IF v136_export_last_done.some
         THEN (IF v136_export_last_done.v >= cutoff_block THEN DONE ELSE IN_PROGRESS)
    ELSE IF Exists(f.v136_export_marker_path) THEN IN_PROGRESS
    ELSE NOT_STARTED

v136_node_head(node_effective_head) == GetOr(node_effective_head, V136, 0)

v136_done_effective(f, node_effective_head) ==
    Exists(f.v136_seed_done_path) /\ v136_node_head(node_effective_head) >= cutoff_block

\* v136_export_started as it would be if the stale import files were trusted.
v136_export_started_or_importing(f) ==
    Exists(f.v136_export_marker_path)
    \/ v136_export_done(f)
    \/ LastDone(f.v136_export_progress_path).some
    \/ Exists(f.v136_import_marker_path)
    \/ Exists(f.v136_import_log_path)

v136_export_started(f) ==
    Exists(f.v136_export_marker_path)
    \/ v136_export_done(f)
    \/ LastDone(f.v136_export_progress_path).some

\* v136_importing and v136_import_current as stage 10 leaves them.
V136Import(f, node_effective_head) ==
    LET t == ReadTail(f.v136_import_log_path)
        m == Captures(t.v, {"segment"})
        m2 == Captures(t.v, {"old"})
        n == LastNumber(m)
        n2 == LastNumber(m2)
        marker == Exists(f.v136_import_marker_path)
    IN
    IF v136_done_effective(f, node_effective_head) \/ ~v136_export_started(f)
    THEN [v136_importing |-> FALSE, v136_import_current |-> 0]
    ELSE IF ~Exists(f.v136_import_log_path) \/ ~t.ok
         THEN [v136_importing |-> marker, v136_import_current |-> 0]
    ELSE IF m # <<>>
         THEN [v136_importing |-> TRUE, v136_import_current |-> IF n.ok THEN n.v ELSE 0]
    ELSE IF m2 # <<>>
         THEN [v136_importing |-> marker \/ MentionsImport(t.v),
               v136_import_current |-> IF n2.ok THEN n2.v ELSE 0]
    ELSE [v136_importing |-> marker \/ MentionsImport(t.v), v136_import_current |-> 0]

Stage10(f, node_effective_head) ==
    IF v136_done_effective(f, node_effective_head) THEN DONE
    ELSE IF ~v136_export_started(f) THEN NOT_STARTED
    ELSE IF V136Import(f, node_effective_head).v136_importing THEN IN_PROGRESS
    ELSE NOT_STARTED

\* The whole checklist of one round, as set_stage writes it.
StageChecklist(legacy_enabled, top_name, lh, last_inc_ts, now_ts, f, logs, node_up, node_syncing, node_effective_head) ==
    [s \in Stages |->
        IF s = S01 THEN Stage01(lh)
        ELSE IF s = S02 THEN Stage02(lh, last_inc_ts, now_ts)
        ELSE IF s = S03 THEN Stage03(top_name, node_up, node_syncing)
        ELSE IF s = S04 THEN Stage04(f)
        ELSE IF s = S05 THEN Stage05(f)
        ELSE IF ~legacy_enabled THEN NOT_STARTED
        ELSE IF s = S06 THEN legacy_stage(V1100, node_up, node_effective_head)
        ELSE IF s = S07 THEN Stage07(f, logs)
        ELSE IF s = S08 THEN Stage08(f, logs, node_up, node_effective_head)
        ELSE IF s = S09 THEN Stage09(f)
        ELSE IF s = S10 THEN Stage10(f, node_effective_head)
        ELSE legacy_stage(V103, node_up, node_effective_head)]

(***************************************************************************)
(* The synthetic phase rows                                                *)
(***************************************************************************)
\* The row labels; the arrow of the source's labels is written "->".
RowExport == "Export (v1.16.7 -> RLP)"
RowImport == "Import (RLP -> v1.11.6)"
RowExport110 == "Export (v1.10.0 -> RLP)"
RowImport925 == "Import (RLP -> v1.9.25)"
RowExport925 == "Export (v1.9.25 -> RLP)"
RowImport136 == "Import (RLP -> v1.3.6)"
LegacyRows == {RowExport110, RowImport925, RowExport925, RowImport136}
PhaseRowLabels == {RowExport, RowImport} \cup LegacyRows

\* A row is the series of its label and its series of g_sync_progress_info;
\* old is the series of the label before the call.
emit_phase_row(old, node_label, sort_key, current, target, running, up) ==
    [series |-> [old EXCEPT !.g_sort_key = sort_key,
                            !.g_up = IF up THEN 1 ELSE 0,
                            !.g_effective_head = current,
                            !.g_sync_target = target,
                            !.g_sync_percent = Percent(current, target),
                            !.g_syncing = IF running THEN 1 ELSE 0],
     info |-> Info(ProgressLabel(current, target), 1)]

\* export_current of the export row.
ExportCurrent(f) ==
    LET t == ReadTail(f.seed_log_path)
        m == Captures(t.v, {"exporting"})
        n == LastNumber(m)
        from_log ==
            IF Exists(f.export_done_path) THEN cutoff_block
            ELSE IF Exists(f.seed_log_path) /\ t.ok /\ m # <<>> /\ n.ok THEN n.v
            ELSE 0
        last_done == LastDone(f.export_progress_path)
    IN  IF from_log = 0 /\ last_done.some THEN last_done.v ELSE from_log

ExportRow(old, f) ==
    emit_phase_row(old, RowExport, 150, ExportCurrent(f), cutoff_block,
                   Exists(f.export_marker_path), Exists(f.export_marker_path))

\* Reading importing or import_current before any assignment raises
\* UnboundLocalError, which nothing in _run catches.
ImportRowRaises(loc, f) == ~Exists(f.seed_done_path) /\ ~loc.bound

\* ImportRow as it would be if a finished import still showed the log's number.
ImportRowFromLog(old, loc, f) ==
    LET import_done == Exists(f.seed_done_path)
        import_running ==
            IF ~import_done THEN Exists(f.import_marker_path) \/ loc.importing ELSE FALSE
    IN  emit_phase_row(old, RowImport, 160, loc.import_current, cutoff_block,
                       import_running, import_running)

ImportRow(old, loc, f) ==
    LET import_done == Exists(f.seed_done_path)
        import_running ==
            IF ~import_done THEN Exists(f.import_marker_path) \/ loc.importing ELSE FALSE
        import_display == IF import_done THEN cutoff_block ELSE loc.import_current
    IN  emit_phase_row(old, RowImport, 160, import_display, cutoff_block,
                       import_running, import_running)

\* What the stage section leaves in the local variables the legacy rows read.
StageVars(f, node_effective_head) ==
    LET imp == V136Import(f, node_effective_head) IN
    [v136_export_done |-> v136_export_done(f),
     v136_export_last_done |-> LastDone(f.v136_export_progress_path),
     v136_done_effective |-> v136_done_effective(f, node_effective_head),
     v136_export_started |-> v136_export_started(f),
     v136_importing |-> imp.v136_importing,
     v136_import_current |-> imp.v136_import_current,
     v136_node_head |-> v136_node_head(node_effective_head)]

Export110Row(old, f, logs) ==
    LET done110 == v110_export_done(f)
        v110_export_up ==
            Exists(f.v110_export_marker_path) \/ Exists(f.v110_export_file_path)
            \/ Exists(f.v110_export_done_path) \/ Exists(f.v110_export_log_path)
    IN  emit_phase_row(old, RowExport110, 350,
            IF done110 THEN cutoff_block ELSE logs.v110_export_current,
            cutoff_block, logs.v110_export_running /\ ~done110, v110_export_up)

Import925Row(old, f, logs) ==
    emit_phase_row(old, RowImport925, 440,
        IF logs.v925_import_current >= cutoff_block THEN cutoff_block
        ELSE logs.v925_import_current,
        cutoff_block, logs.v925_import_running,
        Exists(f.v925_import_log_path) \/ Exists(f.v925_import_done_path)
        \/ logs.v925_import_current > 0)

Export925Row(old, f, sv) ==
    LET v136_export_up ==
            Exists(f.v136_export_marker_path) \/ Exists(f.v136_export_progress_path)
            \/ Exists(f.v136_export_file_path) \/ sv.v136_export_done
            \/ Exists(f.v136_export_done_path)
        v136_export_display ==
            IF sv.v136_export_done THEN cutoff_block
            ELSE IF sv.v136_export_last_done.some THEN sv.v136_export_last_done.v ELSE 0
        v136_export_running ==
            ((sv.v136_export_last_done.some /\ sv.v136_export_last_done.v < cutoff_block)
             \/ Exists(f.v136_export_marker_path))
            /\ ~sv.v136_export_done
    IN  emit_phase_row(old, RowExport925, 450, v136_export_display, cutoff_block,
                       v136_export_running, v136_export_up)

Import136Row(old, f, sv) ==
    LET v136_import_done == sv.v136_done_effective
        v136_import_up ==
            sv.v136_export_started
            /\ (Exists(f.v136_import_marker_path) \/ Exists(f.v136_import_log_path)
                \/ v136_import_done \/ sv.v136_import_current > 0)
    IN  emit_phase_row(old, RowImport136, 460,
            IF v136_import_done THEN cutoff_block
            ELSE Max(sv.v136_import_current, sv.v136_node_head),
            cutoff_block, sv.v136_importing /\ ~v136_import_done, v136_import_up)

\* The sort keys of the legacy rows.
LegacySortKey == RowExport110 :> 350 @@ RowImport925 :> 440 @@ RowExport925 :> 450
                 @@ RowImport136 :> 460

\* The else branch of "if legacy_enabled".
DisabledRow(old, label) ==
    emit_phase_row(old, label, LegacySortKey[label], 0, cutoff_block, FALSE, FALSE)

LegacyRow(old, label, legacy_enabled, f, logs, sv) ==
    IF ~legacy_enabled THEN DisabledRow(old, label)
    ELSE IF label = RowExport110 THEN Export110Row(old, f, logs)
    ELSE IF label = RowImport925 THEN Import925Row(old, f, logs)
    ELSE IF label = RowExport925 THEN Export925Row(old, f, sv)
    ELSE Import136Row(old, f, sv)

\* All phase rows of one round, by label; raised tells that the round ended
\* in an uncaught exception after the export row.
PhaseRows(g, legacy_enabled, loc, f, logs, sv) ==
    IF ImportRowRaises(loc, f)
    THEN [rows |-> [label \in {RowExport} |-> ExportRow(Series(g, label), f)],
          raised |-> TRUE]
    ELSE [rows |-> [label \in PhaseRowLabels |->
                      IF label = RowExport THEN ExportRow(Series(g, label), f)
                      ELSE IF label = RowImport THEN ImportRow(Series(g, label), loc, f)
                      ELSE LegacyRow(Series(g, label), label, legacy_enabled, f, logs, sv)],
          raised |-> FALSE]

(***************************************************************************)
(* The beacon row and the backfill signals                                 *)
(***************************************************************************)
\* The text of the beacon /metrics endpoint is a sequence of lines. A line
\* names a metric, has labels or not, and is written in one of two forms:
\*   "exposition"  name{labels} 17       (the Prometheus text format)
\*   "literal"     name\{labels\}\s\d\s  (the characters the patterns of
\*                 _parse_prom_number spell out: their backslashes are doubled
\*                 in a raw string, so each stands for a backslash in the text)
\* num is the text at the place of the number.
MetricLine(metric, labelled, labels, form, num) ==
    [metric |-> metric, labelled |-> labelled, labels |-> labels, form |-> form,
     num |-> num]

WorkersMetric == "beacon_processor_workers_active_gauge_by_type"
BackfillLabel == "type=chain_segment_backfill"
BackfillTotalMetric == "beacon_processor_backfill_chain_segment_success_total"

\* float(text) for an unsigned digit string; ValueError otherwise.
PyFloat(chars) == ParseDigits(chars, 10)

RECURSIVE FirstLine(_, _, _, _)
\* The first line of the metric in the given form, labelled or not, whose
\* labels contain the selector (any line when the selector is empty).
FirstLine(text, metric, labelled, selector) ==
    IF text = <<>> THEN None
    ELSE LET l == Head(text) IN
         IF l.metric = metric /\ l.form = "literal" /\ l.labelled = labelled
            /\ (selector = "" \/ selector \in l.labels)
         THEN Some(l.num)
         ELSE FirstLine(Tail(text), metric, labelled, selector)

RECURSIVE FirstExpositionLine(_, _, _, _)
FirstExpositionLine(text, metric, labelled, selector) ==
    IF text = <<>> THEN None
    ELSE LET l == Head(text) IN
         IF l.metric = metric /\ l.form = "exposition" /\ l.labelled = labelled
            /\ (selector = "" \/ selector \in l.labels)
         THEN Some(l.num)
         ELSE FirstExpositionLine(Tail(text), metric, labelled, selector)

\* What float() makes of the first match: the number, or None.
FloatOrNone(match) ==
    LET n == PyFloat(match.v) IN IF n.ok THEN Some(n.v) ELSE None

\* The patterns as they would read with single backslashes.
ParsePromNumberExposition(text, metric, label_selector) ==
    LET labeled == FirstExpositionLine(text, metric, TRUE, label_selector)
        plain == FirstExpositionLine(text, metric, FALSE, "")
    IN  IF labeled.some THEN FloatOrNone(labeled)
        ELSE IF label_selector = "" /\ plain.some THEN FloatOrNone(plain)
        ELSE None

_parse_prom_number(text, metric, label_selector) ==
    LET labeled == FirstLine(text, metric, TRUE, label_selector)
        plain == FirstLine(text, metric, FALSE, "")
    IN  IF labeled.some THEN FloatOrNone(labeled)
        ELSE IF label_selector = "" /\ plain.some THEN FloatOrNone(plain)
        ELSE None

\* self._lh_backfill_last_total and self._lh_backfill_last_inc_ts
NoTracking == [last_total |-> None, last_inc_ts |-> None]

\* Lines 376-383.
TrackBackfill(tr, backfill_total, now_ts) ==
    IF backfill_total.some
    THEN [last_total |-> backfill_total,
          last_inc_ts |->
              IF tr.last_total.some /\ backfill_total.v > tr.last_total.v
              THEN Some(now_ts) ELSE tr.last_inc_ts]
    ELSE tr

\* The answer of an HTTP GET: kind "result" with the body, or a failure.
\* _http_get_json, _http_get_text
http_get(reply) == IF reply.kind = "result" THEN Ok(reply.result) ELSE Raise("HTTPError")

LighthouseDown ==
    [lighthouse_up |-> FALSE, lighthouse_is_syncing |-> FALSE,
     lighthouse_sync_distance |-> 0, lighthouse_backfill_workers |-> None]

\* TrackBackfill as it would be with ">=" for ">".
TrackBackfillRepeated(tr, backfill_total, now_ts) ==
    IF backfill_total.some
    THEN [last_total |-> backfill_total,
          last_inc_ts |->
              IF tr.last_total.some /\ backfill_total.v >= tr.last_total.v
              THEN Some(now_ts) ELSE tr.last_inc_ts]
    ELSE tr

\* BackfillSignals as it would be with patterns that read the exposition
\* format and a counter compared with ">=".
BackfillSignalsRepeated(metrics_configured, metrics_reply, tr, now_ts) ==
    LET text == http_get(metrics_reply) IN
    IF ~metrics_configured THEN [workers |-> None, tr |-> tr]
    ELSE IF ~text.ok THEN [workers |-> None, tr |-> tr]
    ELSE [workers |-> ParsePromNumberExposition(text.v, WorkersMetric, BackfillLabel),
          tr |-> TrackBackfillRepeated(
                    tr, ParsePromNumberExposition(text.v, BackfillTotalMetric, ""),
                    now_ts)]

\* Lines 361-385: the worker gauge and the tracked counter.
BackfillSignals(metrics_configured, metrics_reply, tr, now_ts) ==
    LET text == http_get(metrics_reply) IN
    IF ~metrics_configured THEN [workers |-> None, tr |-> tr]
    ELSE IF ~text.ok THEN [workers |-> None, tr |-> tr]
    ELSE [workers |-> _parse_prom_number(text.v, WorkersMetric, BackfillLabel),
          tr |-> TrackBackfill(tr, _parse_prom_number(text.v, BackfillTotalMetric, ""),
                               now_ts)]

BeaconDownRow(old) ==
    [series |-> [old EXCEPT !.g_sort_key = 0, !.g_up = 0, !.g_syncing = 0,
                            !.g_sync_current = 0, !.g_sync_highest = 0,
                            !.g_sync_remaining = 0, !.g_effective_head = 0,
                            !.g_sync_target = 0, !.g_sync_percent = Zero],
     info |-> Info(TextLabel("down"), 0)]

BeaconUpRow(old, head_slot, distance, is_syncing) ==
    LET target_slot == head_slot + distance IN
    [series |-> [old EXCEPT !.g_sort_key = 0, !.g_up = 1,
                            !.g_syncing = IF is_syncing THEN 1 ELSE 0,
                            !.g_sync_current = head_slot, !.g_sync_highest = target_slot,
                            !.g_sync_remaining = Max(0, distance),
                            !.g_effective_head = head_slot,
                            !.g_sync_target = target_slot,
                            !.g_sync_percent = Percent(head_slot, target_slot)],
     info |-> Info(ProgressLabel(head_slot, target_slot), 1)]

\* Lines 340-409. The result holds the beacon row by its label (no row when
\* no API URL is configured), the lighthouse_* locals and the tracking
\* fields of the Poller.
SampleBeacon(g, api_configured, api_reply, metrics_configured, metrics_reply, tr, now_ts) ==
    LET old == Series(g, lighthouse_label)
        body == http_get(api_reply)
        syncing == PyOr(body.v, JObj(Empty))
        data == PyOr(Get(syncing, "data"), JObj(Empty))
        head_slot == PyInt(PyOr(Get(data, "head_slot"), JInt(0)))
        distance == PyInt(PyOr(Get(data, "sync_distance"), JInt(0)))
        sig == BackfillSignals(metrics_configured, metrics_reply, tr, now_ts)
    IN
    IF ~api_configured THEN [rows |-> Empty, lh |-> LighthouseDown, tr |-> tr]
    ELSE IF ~body.ok \/ syncing.k # "obj" \/ data.k # "obj"
            \/ ~head_slot.ok \/ ~distance.ok
         THEN [rows |-> [label \in {lighthouse_label} |-> BeaconDownRow(old)],
               lh |-> LighthouseDown, tr |-> tr]
    ELSE [rows |-> [label \in {lighthouse_label} |->
                      BeaconUpRow(old, head_slot.v, distance.v,
                                  Truthy(Get(data, "is_syncing")))],
          lh |-> [lighthouse_up |-> TRUE,
                  lighthouse_is_syncing |-> Truthy(Get(data, "is_syncing")),
                  lighthouse_sync_distance |-> distance.v,
                  lighthouse_backfill_workers |-> sig.workers],
          tr |-> sig.tr]

\* The gauges labelled by node at the end of a round: each label holds what
\* the last write of the round left (the beacon row, the node loop with the
\* lag pass, the phase rows, in that order), or what it held before.
RoundGauges(g, beacon_rows, samples, top_name, rows) ==
    LET blocks == Blocks(samples) IN
    [label \in DOMAIN g \cup DOMAIN beacon_rows \cup DOMAIN samples \cup DOMAIN rows |->
        IF label \in DOMAIN rows THEN rows[label].series
        ELSE IF label \in DOMAIN samples
             THEN [samples[label].series EXCEPT
                      !.g_lag_vs_top = LagValue(@, label, top_name, blocks)]
        ELSE IF label \in DOMAIN beacon_rows THEN beacon_rows[label].series
        ELSE g[label]]

\* Gauge.clear() as it would be if it removed no series.
KeepSeries(g) == g

\* g_sync_progress_info.clear(), g_stage_status.clear(): no series is left.
ClearSeries(g) == Empty

\* g_sync_progress_info.labels(node, progress).set(value) on the series held
\* for the node: the series of that progress label is set, the others stay.
SetInfo(held, info) == {i \in held : i.progress # info.progress} \cup {info}

\* g_sync_progress_info at the end of a round that began with the series
\* info: per node label, the set of the series held.
RoundInfo(info, beacon_rows, samples, rows) ==
    [label \in DOMAIN info \cup DOMAIN beacon_rows \cup DOMAIN samples \cup DOMAIN rows |->
        LET held == IF label \in DOMAIN info THEN info[label] ELSE {} IN
        IF label \in DOMAIN rows THEN SetInfo(held, rows[label].info)
        ELSE IF label \in DOMAIN samples THEN SetInfo(held, samples[label].info)
        ELSE IF label \in DOMAIN beacon_rows THEN SetInfo(held, beacon_rows[label].info)
        ELSE held]

\* g_stage_status at the end of a round that began with the series status:
\* set_stage sets the series of its stage, the others stay.
RoundStages(status, checklist) ==
    [stage \in DOMAIN status \cup DOMAIN checklist |->
        IF stage \in DOMAIN checklist THEN checklist[stage] ELSE status[stage]]

(***************************************************************************)
(* State                                                                   *)
(***************************************************************************)
VARIABLES
    nodes,                  \* self.nodes: the configured names, in order
    lighthouse_api_url,     \* whether LIGHTHOUSE_API_URL is set
    lighthouse_metrics_url, \* whether LIGHTHOUSE_METRICS_URL is set
    rpc,                    \* what each node answers to each method
    beacon,                 \* what the beacon API and its /metrics answer
    files,                  \* the files of HOST_OUTPUT_DIR
    focus,                  \* the part of the environment a behaviour varies
    call,                   \* a call of main() or hex_to_int: its argument and outcome
    tool,                   \* a run of one of the stand-alone scripts beside the exporter
    pc,                     \* where the poller thread stands in _run
    stop,                   \* self._stop: whether the event is set
    carry,                  \* the locals of _run one part of a round leaves to the next
    seen,                   \* what the last /metrics request rendered
    now,                    \* time.time()
    tracking,               \* self._lh_backfill_last_total, _last_inc_ts
    locals,                 \* importing, import_current of _run
    alive,                  \* the poller thread has not died
    gauges,                 \* the gauges labelled by node
    g_sync_progress_info,   \* labelled by (node, progress): per node, its series
    g_stage_status,         \* labelled by stage
    sampled,                \* blocks, peers, node_up, ... and the requests of the last round
    rounds,                 \* number of rounds run
    prev,                   \* the gauges as the round before the last left them
    changed,                \* the environment changed since the last round
    same                    \* the last two rounds read the same environment

\* What no step of the exporter changes: its configuration, and the script
\* that runs beside it.
config == <<nodes, lighthouse_api_url, lighthouse_metrics_url, focus, tool>>
env == <<rpc, beacon, files>>
program == <<now, tracking, locals, alive, gauges, g_sync_progress_info,
             g_stage_status, sampled>>
history == <<rounds, prev, same>>
thread == <<pc, stop, carry, seen>>
vars == <<config, env, program, history, changed, call, thread>>
\* What no step of a stand-alone script changes.
exporter == <<nodes, lighthouse_api_url, lighthouse_metrics_url, focus, env, program,
              history, changed, call, thread>>

(***************************************************************************)
(* The environments of the model                                           *)
(***************************************************************************)
FullNodes == <<V1167, V1116, V1100, V1925, V136, V103>>
ModernNodes == <<V1167, V1116>>
PlainNodes == <<"A">>
PartNodes == <<V1167, V136>>
NodeLists == {FullNodes, ModernNodes, PlainNodes, PartNodes}


Chars0 == <<"0", "x", "0">>
Chars40 == <<"0", "x", "2", "8">>
Chars50 == <<" ", "0", "X", "3", "2">>
Chars200 == <<"2", "0", "0">>
CharsV103Target == <<"1", "1", "4", "9", "9", "9", "9">>
CharsCutoff == <<"0", "x", "1", "d", "4", "b", "f", "f">>
CharsBad == <<"0", "x", "z">>

\* Answers to eth_blockNumber.
BlockReplies ==
    {Unreachable, Reply("rpcerror", JNull), Result(JStr(Chars0)), Result(JStr(Chars40)),
     Result(JStr(CharsV103Target)), Result(JStr(CharsCutoff)), Result(JInt(2000000)),
     Result(JStr(CharsBad))}

\* Answers to net_peerCount.
PeerReplies == {Reply("http", JNull), Result(JStr(<<"0", "x", "3">>)), Result(JStr(CharsBad))}

SyncObj(cur, hi) == JObj([currentBlock |-> cur, highestBlock |-> hi])

\* Answers to eth_syncing.
SyncReplies ==
    {Reply("rpcerror", JNull), Result(JBool(FALSE)), Result(JBool(TRUE)),
     Result(JObj([startingBlock |-> JInt(0)])),
     Result(SyncObj(JStr(Chars50), JStr(CharsBad)))}
    \cup {Result(SyncObj(cur, hi)) :
            cur \in {JStr(Chars0), JStr(Chars50), JInt(1950000)},
            hi \in {JInt(0), JStr(Chars200), JInt(2000000)}}

Answers(b, p, s) == [eth_blockNumber |-> b, net_peerCount |-> p, eth_syncing |-> s]

\* A node that is at the cutoff and does not sync.
SteadyNode == Answers(Result(JInt(cutoff_block)), Result(JInt(3)), Result(JBool(FALSE)))
DeadNode == Answers(Unreachable, Unreachable, Unreachable)

\* A node that answers eth_blockNumber alone.
BareNode == Answers(Result(JStr(Chars40)), Reply("http", JNull), Reply("rpcerror", JNull))

NodeAnswers ==
    {Answers(b, SteadyNode.net_peerCount, s) : b \in BlockReplies, s \in SyncReplies}
    \cup {Answers(SteadyNode.eth_blockNumber, p, SteadyNode.eth_syncing) : p \in PeerReplies}
    \cup {BareNode}

\* The heads a node takes when a file group is under study.
HeadAnswers ==
    {DeadNode, SteadyNode,
     Answers(Result(JStr(Chars0)), SteadyNode.net_peerCount, Result(JBool(FALSE))),
     Answers(Result(JStr(Chars40)), SteadyNode.net_peerCount,
             Result(SyncObj(JStr(Chars50), JStr(Chars200))))}

NoFiles ==
    [export_progress_path |-> Absent, export_file_path |-> Absent,
     export_marker_path |-> Absent,
     export_done_path |-> Absent, seed_log_path |-> Absent, seed_done_path |-> Absent,
     import_marker_path |-> Absent,
     v136_export_file_path |-> Absent, v136_export_progress_path |-> Absent,
     v136_export_marker_path |-> Absent, v136_export_done_path |-> Absent,
     v136_import_marker_path |-> Absent, v136_import_log_path |-> Absent,
     v136_seed_done_path |-> Absent,
     v925_import_log_path |-> Absent, v925_import_done_path |-> Absent,
     v110_export_file_path |-> Absent, v110_export_marker_path |-> Absent,
     v110_export_log_path |-> Absent, v110_export_done_path |-> Absent]

Markers == {Absent, Marker}

CharsLow == <<"4", "8", "7", ",", "5", "0", "0">>
CharsHigh == <<"1", ",", "9", "1", "9", ",", "9", "9", "9">>

ProgressFiles ==
    {Absent, Unreadable, JsonFile(JObj([last_done |-> JInt(487500)])),
     JsonFile(JObj([last_done |-> JStr(<<"1", "9", "1", "9", "9", "9", "9">>)])),
     JsonFile(JObj([last_done |-> JStr(<<"x">>)]))}

ExportFiles == {Absent, SizedFile(1024), SizedFile(min_export_bytes)}

SeedLogs ==
    {Absent, Unreadable,
     LogFile(<<Line("other", <<>>)>>),
     LogFile(<<Line("importing", <<>>)>>),
     LogFile(<<Line("exporting", CharsLow), Line("segment", CharsLow)>>),
     LogFile(<<Line("segment", CharsLow), Line("old", CharsHigh)>>),
     LogFile(<<Line("old", <<",">>)>>)}

ImportLogs ==
    {Absent, Unreadable,
     LogFile(<<Line("other", <<>>)>>),
     LogFile(<<Line("segment_fields", CharsLow)>>),
     LogFile(<<Line("segment", CharsLow)>>),
     LogFile(<<Line("old", CharsLow), Line("segment", CharsHigh)>>)}

ExportLogs ==
    {Absent, Unreadable, LogFile(<<Line("other", <<>>)>>),
     LogFile(<<Line("exporting", CharsLow)>>)}

\* The files of the v1.16.7 export and the v1.11.6 import.
MainFiles ==
    {[NoFiles EXCEPT !.export_done_path = a, !.export_marker_path = b,
                     !.export_progress_path = c, !.seed_done_path = d,
                     !.import_marker_path = e, !.seed_log_path = l,
                     !.export_file_path = x] :
        a \in Markers, b \in Markers, c \in ProgressFiles, d \in Markers,
        e \in Markers, l \in SeedLogs, x \in ExportFiles}

\* The files of the v1.10.0 export and the v1.9.25 import.
V110Files ==
    {[NoFiles EXCEPT !.v110_export_file_path = a, !.v110_export_marker_path = b,
                     !.v110_export_log_path = c, !.v110_export_done_path = d,
                     !.v925_import_log_path = l, !.v925_import_done_path = e] :
        a \in ExportFiles, b \in Markers, c \in ExportLogs, d \in Markers,
        l \in ImportLogs, e \in Markers}

\* The files of the v1.9.25 export and the v1.3.6 import.
V136Files ==
    {[NoFiles EXCEPT !.v136_export_file_path = a, !.v136_export_marker_path = b,
                     !.v136_export_progress_path = c, !.v136_export_done_path = d,
                     !.v136_import_marker_path = e, !.v136_import_log_path = l,
                     !.v136_seed_done_path = g] :
        a \in ExportFiles, b \in Markers, c \in ProgressFiles, d \in Markers,
        e \in Markers, l \in ImportLogs, g \in Markers}

CharsSlot == <<"1", "0", "0">>
SyncingBody(head, distance, is_syncing) ==
    JObj([data |-> JObj([head_slot |-> head, sync_distance |-> distance,
                         is_syncing |-> is_syncing])])

\* Answers of the beacon API to /eth/v1/node/syncing.
BeaconApiReplies ==
    {Unreachable, Result(JNull), Result(JStr(<<"o", "k">>)),
     Result(SyncingBody(JStr(CharsSlot), JStr(<<"x">>), JBool(FALSE)))}
    \cup {Result(SyncingBody(JStr(CharsSlot), d, b)) :
            d \in {JStr(<<"0">>), JStr(<<"5">>)}, b \in {JBool(FALSE), JBool(TRUE)}}

WorkerLines ==
    {MetricLine(WorkersMetric, TRUE, {BackfillLabel}, "exposition", n) :
        n \in {<<"0">>, <<"2">>}}
    \cup {MetricLine(WorkersMetric, TRUE, {BackfillLabel}, "literal", <<"\\", "d">>)}
TotalLines ==
    {MetricLine(BackfillTotalMetric, FALSE, {}, "exposition", n) :
        n \in {<<"4">>, <<"5">>}}
    \cup {MetricLine(BackfillTotalMetric, FALSE, {}, "literal", <<"\\", "d">>)}

\* Answers of the beacon /metrics endpoint.
BeaconMetricsReplies ==
    {Reply("transport", <<>>), Result(<<>>)}
    \cup {Result(<<w>>) : w \in WorkerLines}
    \cup {Result(<<w, t>>) : w \in WorkerLines, t \in TotalLines}
    \cup {Result(<<t>>) : t \in TotalLines}

BeaconAnswers ==
    {[syncing |-> a, metrics |-> m] : a \in BeaconApiReplies, m \in BeaconMetricsReplies}

SteadyBeacon ==
    [syncing |-> Result(SyncingBody(JStr(CharsSlot), JStr(<<"0">>), JBool(FALSE))),
     metrics |-> Result(<<>>)]

Steady(nodelist) == [n \in NodeSet(nodelist) |-> SteadyNode]

(***************************************************************************)
(* Initial states                                                          *)
(***************************************************************************)
NoRound ==
    [blocks |-> Empty, peers |-> Empty, node_up |-> Empty, node_syncing |-> Empty,
     node_effective_head |-> Empty, requests |-> Empty]

NoOutput == [g |-> NoGauges, info |-> Empty, stage |-> Empty]

\* The state of a Poller that was constructed and has not run a round.
InitProgram ==
    /\ now = 0
    /\ tracking = NoTracking
    /\ locals = Unbound
    /\ alive = TRUE
    /\ gauges = NoGauges
    /\ g_sync_progress_info = Empty
    /\ g_stage_status = Empty
    /\ sampled = NoRound
    /\ rounds = 0
    /\ prev = NoOutput
    /\ changed = FALSE
    /\ same = FALSE

\* No call of main() or hex_to_int is followed.
NoCall == [fn |-> "none", arg |-> JNull, done |-> FALSE, out |-> Ok(0)]

\* No /metrics request was served.
NoScrape == [some |-> FALSE, during |-> "top", rounds |-> 0, stage |-> Empty, info |-> Empty, last |-> [stage |-> Empty, info |-> Empty]]

\* The locals of _run before the first round.
NoCarry ==
    [lh |-> LighthouseDown, logs |-> ReadLegacyLogs(FALSE, NoFiles),
     sv |-> StageVars(NoFiles, Empty), flips |-> 0]

\* The thread is at the top of its loop, the event is not set.
\* No stand-alone script is followed.
NoTool == [script |-> "none"]

InitThread ==
    /\ pc = "top"
    /\ stop = FALSE
    /\ carry = NoCarry
    /\ seen = NoScrape

\* The markers the sampling of a node reads.
SamplingFiles(name) ==
    IF name = V1167 THEN {[NoFiles EXCEPT !.export_done_path = a] : a \in Markers}
    ELSE IF name = V1116 THEN {[NoFiles EXCEPT !.seed_done_path = d] : d \in Markers}
    ELSE {NoFiles}

\* One node answers in any way; the others are steady.
InitNodeFocus ==
    /\ nodes \in {FullNodes, PlainNodes, PartNodes}
    /\ focus \in NodeSet(nodes)
    /\ rpc \in {[Steady(nodes) EXCEPT ![focus] = a] : a \in NodeAnswers}
    /\ files \in SamplingFiles(focus)
    /\ beacon = SteadyBeacon
    /\ lighthouse_api_url = TRUE
    /\ lighthouse_metrics_url = TRUE
    /\ InitProgram
    /\ call = NoCall
    /\ InitThread
    /\ tool = NoTool

\* The files of one export/import pair are in any state.
InitFileFocus ==
    /\ nodes \in {FullNodes, ModernNodes}
    /\ focus \in {"main", "v110", "v136"}
    /\ \/ /\ focus = "main"
          /\ files \in MainFiles
          /\ rpc = Steady(nodes)
       \/ /\ focus = "v110"
          /\ files \in V110Files
          /\ rpc \in {[n \in NodeSet(nodes) |-> IF n = V1925 THEN a ELSE SteadyNode] :
                        a \in HeadAnswers}
       \/ /\ focus = "v136"
          /\ files \in V136Files
          /\ rpc \in {[n \in NodeSet(nodes) |-> IF n = V136 THEN a ELSE SteadyNode] :
                        a \in HeadAnswers}
    /\ beacon = SteadyBeacon
    /\ lighthouse_api_url = TRUE
    /\ lighthouse_metrics_url = TRUE
    /\ InitProgram
    /\ call = NoCall
    /\ InitThread
    /\ tool = NoTool

\* The beacon answers in any way.
InitBeaconFocus ==
    /\ nodes = ModernNodes
    /\ focus = "beacon"
    /\ rpc = Steady(nodes)
    /\ files = NoFiles
    /\ beacon \in BeaconAnswers
    /\ lighthouse_api_url \in BOOLEAN
    /\ lighthouse_metrics_url \in BOOLEAN
    /\ InitProgram
    /\ call = NoCall
    /\ InitThread
    /\ tool = NoTool

\* The characters of the values given to hex_to_int.
HexChars == {"0", "1", "9", "f", "A", "x", "z", " "}
\* The longest string given to hex_to_int.
MaxHexLen == 3
HexStrings == UNION {[1..n -> HexChars] : n \in 0..MaxHexLen}
\* The JSON values given to hex_to_int: null, integers, booleans, strings,
\* and an object for every other type.
HexInputs ==
    {JNull, JInt(0), JInt(7), JInt(1919999), JBool(TRUE), JBool(FALSE), JObj(<<>>)}
    \cup {JStr(s) : s \in HexStrings}

\* The items of NODE_URLS between the commas.
NodeUrlItems ==
    {<<>>, <<" ">>, <<"a", "=", "u">>, <<" ", "a", " ", "=", " ", "u", " ">>,
     <<"b", "=", "v", "=", "w">>, <<"a">>, <<"=", "u">>, <<"a", "=">>, <<"a", "=", " ">>}
\* The largest number of items of NODE_URLS.
MaxItems == 3

RECURSIVE Join(_, _)
\* sep.join(items)
Join(items, sep) ==
    IF items = <<>> THEN <<>>
    ELSE IF Len(items) = 1 THEN items[1]
    ELSE items[1] \o <<sep>> \o Join(Tail(items), sep)

NodeUrlSpecs == {Join(items, ",") : items \in UNION {[1..n -> NodeUrlItems] : n \in 0..MaxItems}}
\* The values of PORT, of POLL_INTERVAL_SECONDS and of CUTOFF_BLOCK: unset, a
\* number, a number with blanks or a point, not a number.
PortValues == {<<>>, <<"8", "0">>, <<" ", "8", "0">>, <<"x">>}
IntervalValues == {<<>>, <<"5">>, <<"2", ".", "5">>, <<"x">>}
CutoffValues == {<<>>, <<"5", "0", "0">>, <<"x">>}
Environs ==
    {[NODE_URLS |-> u, PORT |-> <<>>, POLL_INTERVAL_SECONDS |-> <<>>, CUTOFF_BLOCK |-> <<>>] :
        u \in NodeUrlSpecs}
    \cup {[NODE_URLS |-> <<"a", "=", "u">>, PORT |-> q, POLL_INTERVAL_SECONDS |-> i,
           CUTOFF_BLOCK |-> c] : q \in PortValues, i \in IntervalValues, c \in CutoffValues}

\* A call of main() on an environment, or of hex_to_int on a value.
InitCall ==
    /\ nodes = ModernNodes
    /\ focus = "call"
    /\ rpc = Steady(nodes)
    /\ files = NoFiles
    /\ beacon = SteadyBeacon
    /\ lighthouse_api_url = TRUE
    /\ lighthouse_metrics_url = TRUE
    /\ \/ \E e \in Environs : call = [fn |-> "main", arg |-> e, done |-> FALSE, out |-> Ok(0)]
       \/ \E v \in HexInputs :
            call = [fn |-> "hex_to_int", arg |-> v, done |-> FALSE, out |-> Ok(0)]
    /\ InitThread
    /\ tool = NoTool
    /\ InitProgram

\* The node at the head of the list is past the cutoff.
AheadNode == Answers(Result(JInt(2000000)), Result(JInt(3)), Result(JBool(FALSE)))

\* The export and seed done-markers are there or not, and the batch job may
\* create or delete them while the poller runs.
InitSteps ==
    /\ nodes = ModernNodes
    /\ focus = "steps"
    /\ rpc = [Steady(nodes) EXCEPT ![V1167] = AheadNode]
    /\ files \in {[NoFiles EXCEPT !.export_done_path = a, !.seed_done_path = d] :
                    a \in Markers, d \in Markers}
    /\ beacon = SteadyBeacon
    /\ lighthouse_api_url = TRUE
    /\ lighthouse_metrics_url = TRUE
    /\ call = NoCall
    /\ InitThread
    /\ tool = NoTool
    /\ InitProgram

Init == InitNodeFocus \/ InitFileFocus \/ InitBeaconFocus

(***************************************************************************)
(* Actions                                                                 *)
(***************************************************************************)
\* legacy_enabled as it would be if the legacy files on disk enabled the chain.
legacy_enabled_by_files ==
    \/ \E i \in 1..Len(nodes) : nodes[i] \in legacy_nodes
    \/ \E p \in {"v110_export_done_path", "v110_export_marker_path", "v925_import_done_path",
                 "v925_import_log_path", "v136_export_done_path", "v136_export_marker_path",
                 "v136_export_progress_path", "v136_seed_done_path"} : Exists(files[p])

legacy_enabled == \E i \in 1..Len(nodes) : nodes[i] \in legacy_nodes

\* One iteration of the loop of Poller._run, with the wait that ends it.
PollRound ==
    /\ alive
    /\ now <= MaxTime
    /\ LET b == SampleBeacon(gauges, lighthouse_api_url, beacon.syncing,
                             lighthouse_metrics_url, beacon.metrics, tracking, now)
           samples == SampleNodes(gauges, nodes, rpc, files)
           node_up == [n \in DOMAIN samples |-> samples[n].node_up]
           node_syncing == [n \in DOMAIN samples |-> samples[n].node_syncing]
           node_effective_head == [n \in DOMAIN samples |-> samples[n].node_effective_head]
           logs == ReadLegacyLogs(legacy_enabled, files)
           loc == Stage05Locals(locals, files)
           sv == StageVars(files, node_effective_head)
           rows == PhaseRows(gauges, legacy_enabled, loc, files, logs, sv)
       IN  /\ gauges' = RoundGauges(gauges, b.rows, samples, nodes[1], rows.rows)
           /\ g_sync_progress_info' =
                RoundInfo(ClearSeries(g_sync_progress_info), b.rows, samples, rows.rows)
           /\ g_stage_status' =
                RoundStages(ClearSeries(g_stage_status),
                    StageChecklist(legacy_enabled, nodes[1], b.lh, b.tr.last_inc_ts, now,
                                   files, logs, node_up, node_syncing, node_effective_head))
           /\ locals' = loc
           /\ tracking' = b.tr
           /\ alive' = ~rows.raised
           /\ sampled' = [blocks |-> Blocks(samples),
                          peers |-> [n \in DOMAIN samples |-> samples[n].peers],
                          node_up |-> node_up, node_syncing |-> node_syncing,
                          node_effective_head |-> node_effective_head,
                          requests |-> [n \in DOMAIN samples |-> samples[n].sent]]
    /\ now' = now + interval_seconds
    /\ rounds' = rounds + 1
    /\ prev' = [g |-> gauges, info |-> g_sync_progress_info, stage |-> g_stage_status]
    /\ same' = (rounds >= 1 /\ ~changed)
    /\ changed' = FALSE
    /\ UNCHANGED <<config, env, call, thread>>

\* The node under study stops answering.
NodeStops ==
    /\ focus \in NodeSet(nodes)
    /\ rpc[focus] # DeadNode
    /\ rpc' = [rpc EXCEPT ![focus] = DeadNode]
    /\ changed' = TRUE
    /\ UNCHANGED <<config, beacon, files, program, history, call, thread>>

\* The beacon's /metrics answer changes.
BeaconChanges ==
    /\ focus = "beacon"
    /\ \E m \in BeaconMetricsReplies \ {beacon.metrics} :
            beacon' = [beacon EXCEPT !.metrics = m]
    /\ changed' = TRUE
    /\ UNCHANGED <<config, rpc, files, program, history, call, thread>>

\* while not self._stop.is_set()
LoopCondition == ~stop

\* The parts of _run in which a round is under way.
MidRound == {"cleared", "sampled", "staged"}

\* The most rounds the thread begins.
MaxRounds == 2

\* The top of the loop: the condition holds, the two label sets are cleared.
RoundBegin ==
    /\ pc = "top"
    /\ LoopCondition
    /\ rounds < MaxRounds
    /\ g_sync_progress_info' = ClearSeries(g_sync_progress_info)
    /\ g_stage_status' = ClearSeries(g_stage_status)
    /\ prev' = [g |-> gauges, info |-> g_sync_progress_info, stage |-> g_stage_status]
    /\ pc' = "cleared"
    /\ UNCHANGED <<config, env, now, tracking, locals, alive, gauges, sampled, rounds,
                   same, changed, call, stop, carry, seen>>

\* The top of the loop: the condition fails, _run returns.
LoopExit ==
    /\ pc = "top"
    /\ ~LoopCondition
    /\ pc' = "exited"
    /\ UNCHANGED <<config, env, program, history, changed, call, stop, carry, seen>>

\* The beacon row and the loop over the nodes, with the lag.
SampleStep ==
    /\ pc = "cleared"
    /\ LET b == SampleBeacon(gauges, lighthouse_api_url, beacon.syncing,
                             lighthouse_metrics_url, beacon.metrics, tracking, now)
           samples == SampleNodes(gauges, nodes, rpc, files)
       IN  /\ gauges' = RoundGauges(gauges, b.rows, samples, nodes[1], Empty)
           /\ g_sync_progress_info' = RoundInfo(g_sync_progress_info, b.rows, samples, Empty)
           /\ tracking' = b.tr
           /\ sampled' = [blocks |-> Blocks(samples),
                          peers |-> [n \in DOMAIN samples |-> samples[n].peers],
                          node_up |-> [n \in DOMAIN samples |-> samples[n].node_up],
                          node_syncing |-> [n \in DOMAIN samples |-> samples[n].node_syncing],
                          node_effective_head |->
                              [n \in DOMAIN samples |-> samples[n].node_effective_head],
                          requests |-> [n \in DOMAIN samples |-> samples[n].sent]]
           /\ carry' = [carry EXCEPT !.lh = b.lh]
    /\ pc' = "sampled"
    /\ UNCHANGED <<config, env, now, locals, alive, g_stage_status, history, changed,
                   call, stop, seen>>

\* The reads of the logs and the stage checklist.
StageStep ==
    /\ pc = "sampled"
    /\ LET logs == ReadLegacyLogs(legacy_enabled, files)
           sv == StageVars(files, sampled.node_effective_head)
       IN  /\ g_stage_status' =
                RoundStages(g_stage_status,
                    StageChecklist(legacy_enabled, nodes[1], carry.lh, tracking.last_inc_ts,
                                   now, files, logs, sampled.node_up, sampled.node_syncing,
                                   sampled.node_effective_head))
           /\ locals' = Stage05Locals(locals, files)
           /\ carry' = [carry EXCEPT !.logs = logs, !.sv = sv]
    /\ pc' = "staged"
    /\ UNCHANGED <<config, env, now, tracking, alive, gauges, g_sync_progress_info,
                   sampled, history, changed, call, stop, seen>>

\* The phase rows: the round is complete when the last is emitted; an
\* exception ends the thread.
RowStep ==
    /\ pc = "staged"
    /\ LET rows == PhaseRows(gauges, legacy_enabled, locals, files, carry.logs, carry.sv)
       IN  /\ gauges' = RoundGauges(gauges, Empty, Empty, nodes[1], rows.rows)
           /\ g_sync_progress_info' =
                RoundInfo(g_sync_progress_info, Empty, Empty, rows.rows)
           /\ alive' = ~rows.raised
           /\ pc' = IF rows.raised THEN "crashed" ELSE "waiting"
           /\ rounds' = IF rows.raised THEN rounds ELSE rounds + 1
    /\ UNCHANGED <<config, env, now, tracking, locals, g_stage_status, sampled, prev,
                   same, changed, call, stop, carry, seen>>

\* self._stop.wait(self.interval_seconds) runs to its timeout.
WaitTimeout ==
    /\ pc = "waiting"
    /\ ~stop
    /\ now' = now + interval_seconds
    /\ pc' = "top"
    /\ UNCHANGED <<config, env, tracking, locals, alive, gauges, g_sync_progress_info,
                   g_stage_status, sampled, history, changed, call, stop, carry, seen>>

\* self._stop.wait(self.interval_seconds) returns at once: the event is set.
WaitWoken ==
    /\ pc = "waiting"
    /\ stop
    /\ pc' = "top"
    /\ UNCHANGED <<config, env, program, history, changed, call, stop, carry, seen>>

\* Poller.stop() sets the event.
Stop ==
    /\ ~stop
    /\ stop' = TRUE
    /\ UNCHANGED <<config, env, program, history, changed, call, pc, carry, seen>>

\* The label sets as the last completed round wrote them.
LastWritten ==
    IF pc \in MidRound THEN [stage |-> prev.stage, info |-> prev.info]
    ELSE [stage |-> g_stage_status, info |-> g_sync_progress_info]

\* metrics(): generate_latest() renders the registry as it stands. One
\* request is followed.
Scrape ==
    /\ ~seen.some
    /\ seen' = [some |-> TRUE, during |-> pc, rounds |-> rounds,
                stage |-> g_stage_status, info |-> g_sync_progress_info,
                last |-> LastWritten]
    /\ UNCHANGED <<config, env, program, history, changed, call, pc, stop, carry>>

\* The most marker changes of a behaviour.
MaxFlips == 1

\* The batch job creates or deletes a done-marker.
MarkerChanges ==
    /\ carry.flips < MaxFlips
    /\ \E p \in {"export_done_path", "seed_done_path"} :
            files' = [files EXCEPT ![p] = IF Exists(@) THEN Absent ELSE Marker]
    /\ carry' = [carry EXCEPT !.flips = @ + 1]
    /\ UNCHANGED <<config, rpc, beacon, program, history, changed, call, pc, stop, seen>>

\* main() runs on the environment it was given.
CallMain ==
    /\ call.fn = "main"
    /\ ~call.done
    /\ call' = [call EXCEPT !.done = TRUE, !.out = main(call.arg)]
    /\ UNCHANGED <<config, env, program, history, changed, thread>>

\* hex_to_int runs on the value it was given.
CallHexToInt ==
    /\ call.fn = "hex_to_int"
    /\ ~call.done
    /\ call' = [call EXCEPT !.done = TRUE, !.out = hex_to_int(call.arg)]
    /\ UNCHANGED <<config, env, program, history, changed, thread>>

Next == PollRound \/ NodeStops \/ BeaconChanges

Spec == Init /\ [][Next]_vars

\* The behaviours in which one node answers in any way.
NextNodes == PollRound \/ NodeStops
SpecNodes == InitNodeFocus /\ [][NextNodes]_vars

\* The behaviours in which the files of one export/import pair are in any state.
SpecFiles == InitFileFocus /\ [][PollRound]_vars

\* The behaviours in which the beacon answers in any way.
\* The calls of main() and of hex_to_int alone.
NextCalls == CallMain \/ CallHexToInt
SpecCalls == InitCall /\ [][NextCalls]_vars

\* The poller thread part by part, with stop(), /metrics requests and the
\* batch job beside it.
ThreadStep ==
    RoundBegin \/ LoopExit \/ SampleStep \/ StageStep \/ RowStep \/ WaitTimeout \/ WaitWoken
NextSteps == ThreadStep \/ Stop \/ Scrape \/ MarkerChanges
SpecSteps == InitSteps /\ [][NextSteps]_vars
\* The places of the thread in _run.
PcValues == {"top", "cleared", "sampled", "staged", "waiting", "exited", "crashed"}
\* A part of the thread can run: ThreadStep is enabled.
ThreadCanRun ==
    \/ pc = "top" /\ (~LoopCondition \/ rounds < MaxRounds)
    \/ pc \in MidRound
    \/ pc = "waiting"
\* The thread moves on; only the parts of ThreadStep change pc.
ThreadMoves == ThreadCanRun /\ pc' \in PcValues /\ pc' # pc
\* The thread is scheduled as long as it can run.
FairSteps == SpecSteps /\ WF_pc(ThreadMoves)

NextBeacon == PollRound \/ BeaconChanges
SpecBeacon == InitBeaconFocus /\ [][NextBeacon]_vars

(***************************************************************************)
(* What the last round read, in the words of the claims                    *)
(***************************************************************************)
\* A round was run and the environment is the one that round read.
RoundRead == rounds >= 1 /\ ~changed

\* The node is the bridge whose seed done-marker is missing.
Gated(n) == n = V1116 /\ ~Exists(files.seed_done_path)

\* The height the node's eth_blockNumber probe yields, if it yields one.
HeightOf(n) ==
    LET b == rpc_call_optional(rpc[n].eth_blockNumber)
        v == hex_to_int(b)
    IN  IF b.k # "null" /\ v.ok THEN Some(v.v) ELSE None

\* The node's net_peerCount failed or is numeric.
PeersNumeric(n) == hex_to_int(rpc_call_optional(rpc[n].net_peerCount)).ok

\* The node's eth_syncing result is false or absent.
ReportsNotSyncing(n) ==
    LET s == rpc_call_optional(rpc[n].eth_syncing) IN
    s.k = "null" \/ (s.k = "bool" /\ ~s.b)

\* The node's eth_syncing result is an object with numeric currentBlock and
\* highestBlock: the two numbers, if so.
SyncOf(n) ==
    LET s == rpc_call_optional(rpc[n].eth_syncing)
        c == hex_to_int(Get(s, "currentBlock"))
        hi == hex_to_int(Get(s, "highestBlock"))
    IN  IF s.k = "obj" /\ c.ok /\ hi.ok THEN Some([c |-> c.v, hi |-> hi.v]) ELSE None

\* The node answered the last round with a height and well-formed values.
Answered(n) == RoundRead /\ ~Gated(n) /\ HeightOf(n).some /\ PeersNumeric(n)

\* p <= 100 for a fraction p.
AtMost100(p) == p.n <= 100 * p.d

(***************************************************************************)
(* C1                                                                      *)
(***************************************************************************)
\* The node was up in the round before the last, and in the last round its
\* eth_blockNumber probe failed.
FailedAfterSuccess(n) ==
    /\ rounds >= 2 /\ ~changed
    /\ n \in DOMAIN prev.g /\ prev.g[n].g_up = 1
    /\ rpc[n].eth_blockNumber.kind # "result"

ProgressFields(s) ==
    <<s.g_effective_head, s.g_sync_target, s.g_sync_percent, s.g_sync_remaining,
      s.g_sync_current, s.g_sync_highest>>

\* C1 as stated: when a node is sampled successfully in one round and its
\* eth_blockNumber probe fails in the next, the progress fields of the second
\* round (effective head, target, percent, remaining, sync current/highest)
\* equal those of the first, and up is 0.
C1_CacheFallback ==
    \A n \in NodeSet(nodes) :
        FailedAfterSuccess(n)
        => /\ gauges[n].g_up = 0
           /\ ProgressFields(gauges[n]) = ProgressFields(prev.g[n])

\* C1 (amended): when a node is sampled successfully in one round and its
\* eth_blockNumber probe fails in the next, the second round emits up = 0, the
\* progress fields effective head, target, percent, remaining, sync current
\* and sync highest all 0 under the annotation "down", and leaves the height
\* and the peer count of the first round.
C1_DownResetsProgress ==
    \A n \in NodeSet(nodes) :
        FailedAfterSuccess(n)
        => /\ gauges[n].g_up = 0
           /\ ProgressFields(gauges[n]) = <<0, 0, Zero, 0, 0, 0>>
           /\ gauges[n].g_syncing = 0
           /\ g_sync_progress_info[n] = {Info(TextLabel("down"), 0)}
           /\ gauges[n].g_block = prev.g[n].g_block
           /\ gauges[n].g_peers = prev.g[n].g_peers

\* A node that had progress to show in the first round and failed in the second.
C1_Witness ==
    \E n \in NodeSet(nodes) :
        /\ FailedAfterSuccess(n)
        /\ prev.g[n].g_effective_head > 0
        /\ prev.g[n].g_sync_target > 0
        /\ gauges[n].g_block = prev.g[n].g_block
        /\ gauges[n].g_effective_head = 0

(***************************************************************************)
(* C7                                                                      *)
(***************************************************************************)
\* C7: in any round, an ungated node whose eth_blockNumber probe yields the
\* height h (its peer count failed or numeric) and whose eth_syncing result is
\* false or absent is emitted with up = 1, block = h, syncing = 0,
\* effective_head = h, sync_current = 0 and sync_highest = 0.
C7_NotSyncingNode ==
    \A n \in NodeSet(nodes) :
        (Answered(n) /\ ReportsNotSyncing(n))
        => LET h == HeightOf(n).v
               s == gauges[n]
           IN  /\ s.g_up = 1
               /\ s.g_block = h
               /\ s.g_syncing = 0
               /\ s.g_effective_head = h
               /\ s.g_sync_current = 0
               /\ s.g_sync_highest = 0

\* Node A alone, at height 40 and not syncing.
C7_Witness ==
    /\ nodes = PlainNodes
    /\ Answered("A") /\ ReportsNotSyncing("A")
    /\ HeightOf("A") = Some(40)
    /\ gauges["A"].g_up = 1
    /\ gauges["A"].g_block = 40
    /\ gauges["A"].g_effective_head = 40

(***************************************************************************)
(* C8                                                                      *)
(***************************************************************************)
\* C8: a node with no fixed target that reports the height h and eth_syncing
\* with currentBlock c and highestBlock hi is emitted with effective_head =
\* max(h, c) and target = max(hi, effective_head), hence effective_head <=
\* target and percent <= 100.
C8_DynamicTarget ==
    \A n \in NodeSet(nodes) :
        (Answered(n) /\ SyncOf(n).some /\ ~fixed_target(n, files).some)
        => LET h == HeightOf(n).v
               c == SyncOf(n).v.c
               hi == SyncOf(n).v.hi
               s == gauges[n]
           IN  /\ s.g_effective_head = Max(h, c)
               /\ s.g_sync_target = Max(hi, s.g_effective_head)
               /\ s.g_effective_head <= s.g_sync_target
               /\ AtMost100(s.g_sync_percent)

\* h = 40, c = 50, hi = 200 gives effective_head 50, target 200, percent 25.
C8_Witness ==
    /\ nodes = PlainNodes
    /\ Answered("A")
    /\ HeightOf("A") = Some(40)
    /\ SyncOf("A").some
    /\ SyncOf("A").v = [c |-> 50, hi |-> 200]
    /\ gauges["A"].g_effective_head = 50
    /\ gauges["A"].g_sync_target = 200
    /\ gauges["A"].g_sync_percent = [n |-> 25, d |-> 1]

(***************************************************************************)
(* C9                                                                      *)
(***************************************************************************)
\* C9: for Geth v1.16.7, while the export done-marker does not exist the
\* target is the cutoff and, when it reports syncing, the effective head is
\* the height alone; once the done-marker exists there is no fixed target
\* (the target is the height when not syncing, max(highestBlock, effective
\* head) when syncing) and the effective head when syncing is
\* max(height, currentBlock).
C9_TopNodePolicy ==
    (V1167 \in NodeSet(nodes) /\ Answered(V1167)
        /\ (ReportsNotSyncing(V1167) \/ SyncOf(V1167).some))
    => LET h == HeightOf(V1167).v
           sy == SyncOf(V1167)
           s == gauges[V1167]
       IN  IF ~Exists(files.export_done_path)
           THEN /\ s.g_sync_target = cutoff_block
                /\ sy.some => s.g_effective_head = h
           ELSE /\ sy.some => /\ s.g_effective_head = Max(h, sy.v.c)
                              /\ s.g_sync_target = Max(sy.v.hi, s.g_effective_head)
                /\ ~sy.some => s.g_sync_target = h

\* Before the export is done, v1.16.7 at height 40 reports currentBlock 50.
C9_Witness ==
    /\ V1167 \in NodeSet(nodes) /\ Answered(V1167)
    /\ ~Exists(files.export_done_path)
    /\ HeightOf(V1167) = Some(40)
    /\ SyncOf(V1167).some /\ SyncOf(V1167).v.c = 50
    /\ gauges[V1167].g_effective_head = 40
    /\ gauges[V1167].g_sync_target = cutoff_block

(***************************************************************************)
(* C10                                                                     *)
(***************************************************************************)
\* C10: every node row emitted with up = 1, with effective head H and target
\* T, has remaining = max(0, T - H), never negative, percent = 100 * H / T
\* when T > 0 and percent = 0 when T = 0.
C10_RemainingAndPercent ==
    \A n \in NodeSet(nodes) :
        (rounds >= 1 /\ gauges[n].g_up = 1)
        => LET H == gauges[n].g_effective_head
               T == gauges[n].g_sync_target
           IN  /\ gauges[n].g_sync_remaining = (IF T - H > 0 THEN T - H ELSE 0)
               /\ gauges[n].g_sync_remaining >= 0
               /\ T > 0 => gauges[n].g_sync_percent = Frac(100 * H, T)
               /\ T = 0 => gauges[n].g_sync_percent = [n |-> 0, d |-> 1]

\* Geth v1.0.3 above its fixed target: remaining is 0, not negative.
C10_Witness ==
    /\ V103 \in NodeSet(nodes)
    /\ rounds >= 1
    /\ gauges[V103].g_up = 1
    /\ gauges[V103].g_effective_head > gauges[V103].g_sync_target
    /\ gauges[V103].g_sync_target = GETH_V1_0_3_TARGET_BLOCK
    /\ gauges[V103].g_sync_remaining = 0

(***************************************************************************)
(* C2                                                                      *)
(***************************************************************************)
\* C2 as stated: in every round, if an export stage (04, 07 or 09) is
\* NOT_STARTED then its import stage (05, 08 or 10) is NOT_STARTED too.
C2_DownstreamBeforeUpstream ==
    rounds >= 1
    => /\ g_stage_status[S04] = NOT_STARTED => g_stage_status[S05] = NOT_STARTED
       /\ g_stage_status[S07] = NOT_STARTED => g_stage_status[S08] = NOT_STARTED
       /\ g_stage_status[S09] = NOT_STARTED => g_stage_status[S10] = NOT_STARTED

\* C2 (amended): in every round, if stage 09 is NOT_STARTED then stage 10 is
\* not IN_PROGRESS: it is NOT_STARTED, unless the v1.3.6 done-marker exists
\* and the effective head sampled for Geth v1.3.6 is at least the cutoff,
\* in which case it is DONE.
C2_NoImportBeforeExport ==
    (rounds >= 1 /\ g_stage_status[S09] = NOT_STARTED)
    => LET done == /\ legacy_enabled
                   /\ Exists(files.v136_seed_done_path)
                   /\ GetOr(sampled.node_effective_head, V136, 0) >= cutoff_block
       IN  g_stage_status[S10] = (IF done THEN DONE ELSE NOT_STARTED)

\* The export of step 09 left no trace, while an import marker or an import
\* log of step 10 lies on disk.
C2_Witness ==
    /\ rounds >= 1
    /\ legacy_enabled
    /\ g_stage_status[S09] = NOT_STARTED
    /\ Exists(files.v136_import_marker_path)
    /\ Exists(files.v136_import_log_path)
    /\ ReadTail(files.v136_import_log_path).ok
    /\ MentionsImport(ReadTail(files.v136_import_log_path).v)
    /\ g_stage_status[S10] = NOT_STARTED

(***************************************************************************)
(* C3                                                                      *)
(***************************************************************************)
\* C3: when none of Geth v1.10.0, v1.9.25, v1.3.6, v1.0.3 is configured,
\* at the end of every round stages 06 to 11 are NOT_STARTED and the four
\* legacy phase rows report current 0, syncing 0 and up 0, whatever files
\* exist.
C3_LegacyDisabled ==
    (rounds >= 1 /\ \A i \in 1..Len(nodes) : nodes[i] \notin legacy_nodes)
    => /\ \A s \in {S06, S07, S08, S09, S10, S11} : g_stage_status[s] = NOT_STARTED
       /\ \A r \in LegacyRows :
            /\ gauges[r].g_effective_head = 0
            /\ gauges[r].g_syncing = 0
            /\ gauges[r].g_up = 0

\* No legacy node is configured while done-markers of the legacy steps exist.
C3_Witness ==
    /\ rounds >= 1
    /\ \A i \in 1..Len(nodes) : nodes[i] \notin legacy_nodes
    /\ Exists(files.v136_export_done_path)
    /\ ExportFileOk(files.v136_export_file_path)
    /\ Exists(files.v136_seed_done_path)
    /\ g_stage_status[S09] = NOT_STARTED
    /\ gauges[RowExport925].g_up = 0

(***************************************************************************)
(* C6                                                                      *)
(***************************************************************************)
\* The output file is missing or smaller than 16 MiB.
FileMissingOrSmall(file) == ~Exists(file) \/ file.size < min_export_bytes

RowValues(g, label) ==
    LET s == Series(g, label) IN
    <<s.g_up, s.g_effective_head, s.g_sync_target, s.g_sync_percent, s.g_syncing>>

C5_DoneStaysDone ==
    same => \A s \in Stages : prev.stage[s] = DONE => g_stage_status[s] = DONE

\* Stage 02 was DONE in two rounds that read the same backfill counter.
C5_Witness ==
    /\ same
    /\ prev.stage[S02] = DONE
    /\ g_stage_status[S02] = DONE
    /\ lighthouse_metrics_url
    /\ beacon.metrics.kind = "result"
    /\ \E i \in 1..Len(beacon.metrics.result) :
            /\ beacon.metrics.result[i].metric = BackfillTotalMetric
            /\ beacon.metrics.result[i].form = "exposition"

(***************************************************************************)
(* C11                                                                     *)
(***************************************************************************)
\* C11: in every round in which the seed done-marker is absent when Geth
\* v1.11.6 is sampled, the node is emitted with up = 0 and with height,
\* peers, effective head, target and percent all 0, no request is sent to
\* it, and it has no height in the lag computation (its lag is left as it
\* was), whether or not its endpoint answers.
C11_Gating ==
    (rounds >= 1 /\ V1116 \in NodeSet(nodes) /\ ~Exists(files.seed_done_path))
    => LET s == gauges[V1116] IN
       /\ s.g_up = 0
       /\ s.g_block = 0
       /\ s.g_peers = 0
       /\ s.g_effective_head = 0
       /\ s.g_sync_target = 0
       /\ s.g_sync_percent = Zero
       /\ sampled.requests[V1116] = <<>>
       /\ V1116 \notin DOMAIN sampled.blocks
       /\ s.g_lag_vs_top = Series(prev.g, V1116).g_lag_vs_top

\* The bridge answers eth_blockNumber with a height while the seed
\* done-marker is missing, and is emitted as down.
C11_Witness ==
    /\ rounds >= 1
    /\ V1116 \in NodeSet(nodes)
    /\ ~Exists(files.seed_done_path)
    /\ ~changed
    /\ HeightOf(V1116).some
    /\ HeightOf(V1116).v > 0
    /\ gauges[V1116].g_up = 0
    /\ sampled.requests[V1116] = <<>>

(***************************************************************************)
(* C12                                                                     *)
(***************************************************************************)
\* C12: within one round each node's eth_blockNumber is requested at most
\* once and no request to the node is repeated; if the eth_blockNumber
\* request fails, net_peerCount and eth_syncing are not requested for that
\* node in that round and the node is emitted with up = 0.
C12_ProbeOnce ==
    \A n \in NodeSet(nodes) :
        rounds >= 1
        => LET q == sampled.requests[n] IN
           /\ \A i, j \in 1..Len(q) : q[i] = q[j] => i = j
           /\ (RoundRead /\ ~Gated(n) /\ rpc[n].eth_blockNumber.kind # "result")
                => /\ q = <<"eth_blockNumber">>
                   /\ gauges[n].g_up = 0

\* A node whose eth_blockNumber request fails while its net_peerCount and
\* eth_syncing would have been answered.
C12_Witness ==
    \E n \in NodeSet(nodes) :
        /\ RoundRead /\ ~Gated(n)
        /\ rpc[n].eth_blockNumber.kind # "result"
        /\ rpc[n].net_peerCount.kind = "result"
        /\ rpc[n].eth_syncing.kind = "result"
        /\ sampled.requests[n] = <<"eth_blockNumber">>
        /\ gauges[n].g_up = 0

(***************************************************************************)
(* C13                                                                     *)
(***************************************************************************)
\* No round has written a height for the node: it was never sampled
\* successfully.
NeverSampled(n) == gauges[n].g_block = Unset

\* C13: for a node that has never been sampled successfully, a round in which
\* its eth_blockNumber probe fails emits up = 0, the progress annotation
\* "down", and 0 for syncing, sync_current, sync_highest, remaining,
\* effective head, target and percent.
C13_FirstFailure ==
    \A n \in NodeSet(nodes) :
        (RoundRead /\ ~Gated(n) /\ rpc[n].eth_blockNumber.kind # "result"
            /\ NeverSampled(n))
        => LET s == gauges[n] IN
           /\ s.g_up = 0
           /\ g_sync_progress_info[n] = {Info(TextLabel("down"), 0)}
           /\ s.g_syncing = 0
           /\ s.g_sync_current = 0
           /\ s.g_sync_highest = 0
           /\ s.g_sync_remaining = 0
           /\ s.g_effective_head = 0
           /\ s.g_sync_target = 0
           /\ s.g_sync_percent = Zero

\* The first round finds the node unreachable: it has neither a height nor
\* a peer count series, and is annotated "down".
C13_Witness ==
    \E n \in NodeSet(nodes) :
        /\ rounds = 1 /\ ~changed
        /\ ~Gated(n)
        /\ rpc[n].eth_blockNumber.kind = "transport"
        /\ NeverSampled(n)
        /\ gauges[n].g_peers = Unset
        /\ gauges[n].g_up = 0
        /\ g_sync_progress_info[n] = {Info(TextLabel("down"), 0)}

(***************************************************************************)
(* C14                                                                     *)
(***************************************************************************)
\* The request failed: transport error, HTTP error or JSON-RPC error envelope.
Failed(reply) == reply.kind \in {"transport", "http", "rpcerror"}

\* C14: if a node's eth_blockNumber probe yields a height and its
\* net_peerCount and/or eth_syncing request fails (the one that did not fail
\* being well-formed), the node is still emitted with up = 1, a failed peer
\* count is reported as 0, and a failed eth_syncing is classified as not
\* syncing.
C14_OptionalProbes ==
    \A n \in NodeSet(nodes) :
        (/\ RoundRead /\ ~Gated(n) /\ HeightOf(n).some
         /\ Failed(rpc[n].net_peerCount) \/ Failed(rpc[n].eth_syncing)
         /\ ~Failed(rpc[n].net_peerCount) => PeersNumeric(n)
         /\ ~Failed(rpc[n].eth_syncing) => (ReportsNotSyncing(n) \/ SyncOf(n).some))
        => LET s == gauges[n] IN
           /\ s.g_up = 1
           /\ s.g_block = HeightOf(n).v
           /\ Failed(rpc[n].net_peerCount)
                => (s.g_peers = 0 /\ sampled.peers[n] = 0)
           /\ Failed(rpc[n].eth_syncing)
                => /\ s.g_syncing = 0
                   /\ s.g_sync_current = 0
                   /\ s.g_sync_highest = 0
                   /\ s.g_effective_head = HeightOf(n).v
                   /\ ~sampled.node_syncing[n]

\* Node A answers eth_blockNumber with 40 while both optional requests fail.
C14_Witness ==
    /\ nodes = PlainNodes
    /\ RoundRead
    /\ HeightOf("A").some
    /\ HeightOf("A").v = 40
    /\ Failed(rpc["A"].net_peerCount)
    /\ Failed(rpc["A"].eth_syncing)
    /\ gauges["A"].g_up = 1
    /\ gauges["A"].g_peers = 0
    /\ gauges["A"].g_syncing = 0

(***************************************************************************)
(* C15                                                                     *)
(***************************************************************************)
\* A value the node returned has an unexpected shape: a height or a peer
\* count that is not numeric, or an eth_syncing result that is neither false,
\* absent, nor an object whose currentBlock and highestBlock convert.
Malformed(n) ==
    LET b == rpc_call_optional(rpc[n].eth_blockNumber) IN
    /\ RoundRead /\ ~Gated(n)
    /\ b.k # "null"
    /\ \/ ~hex_to_int(b).ok
       \/ ~PeersNumeric(n)
       \/ ~(ReportsNotSyncing(n) \/ SyncOf(n).some)

\* What a down node shows: up 0, the annotation "down", 0 for the progress
\* fields, and height, peers and lag as the round found them.
DownValues(n) ==
    LET s == gauges[n]
        old == Series(prev.g, n)
    IN  /\ s.g_up = 0
        /\ g_sync_progress_info[n] = {Info(TextLabel("down"), 0)}
        /\ s.g_syncing = 0
        /\ ProgressFields(s) = <<0, 0, Zero, 0, 0, 0>>
        /\ s.g_block = old.g_block
        /\ s.g_peers = old.g_peers
        /\ s.g_lag_vs_top = old.g_lag_vs_top
        /\ n \notin DOMAIN sampled.blocks

\* C15: if any value returned for a node has an unexpected shape, the node
\* ends that round marked down: up = 0 and every value emitted for it is the
\* down value, with no new height and no lag computed from it left emitted;
\* sampling continues with the next node.
C15_MalformedIsDown ==
    \A n \in NodeSet(nodes) :
        Malformed(n)
        => /\ DownValues(n)
           /\ \A m \in NodeSet(nodes) \ {n} : Gated(m) \/ sampled.requests[m] # <<>>

(***************************************************************************)
(* C16                                                                     *)
(***************************************************************************)
\* C16: in every round in which the reference node (the first configured) is
\* sampled successfully with height t, the lag of every node sampled
\* successfully in that round with height b is max(0, t - b) at the end of the
\* round; lag values are never negative and the reference node's own lag is 0.
C16_Lag ==
    rounds >= 1
    => LET top == nodes[1] IN
       /\ gauges[top].g_up = 1
            => /\ \A n \in NodeSet(nodes) :
                    gauges[n].g_up = 1
                    => LET d == gauges[top].g_block - gauges[n].g_block IN
                       gauges[n].g_lag_vs_top = (IF d > 0 THEN d ELSE 0)
               /\ gauges[top].g_lag_vs_top = 0
       /\ \A n \in NodeSet(nodes) :
            gauges[n].g_lag_vs_top = Unset \/ gauges[n].g_lag_vs_top >= 0

\* The reference node is at 2000000 and Geth v1.10.0 at the cutoff, 80001
\* blocks behind.
C16_Witness ==
    /\ rounds >= 1
    /\ nodes = FullNodes
    /\ gauges[V1167].g_up = 1
    /\ gauges[V1100].g_up = 1
    /\ gauges[V1167].g_block = 2000000
    /\ gauges[V1100].g_block = cutoff_block
    /\ gauges[V1100].g_lag_vs_top = 80001
    /\ gauges[V1167].g_lag_vs_top = 0

(***************************************************************************)
(* C17                                                                     *)
(***************************************************************************)
\* C17: a node emitted with up = 0 in a round (probe failure, malformed
\* response, or gating) keeps exactly the lag value it had at the end of the
\* previous round; and in a round where the reference node is down, no
\* node's lag value changes.
C17_LagKept ==
    rounds >= 1
    => /\ \A n \in NodeSet(nodes) :
            gauges[n].g_up = 0
            => gauges[n].g_lag_vs_top = Series(prev.g, n).g_lag_vs_top
       /\ gauges[nodes[1]].g_up = 0
            => \A n \in NodeSet(nodes) :
                  gauges[n].g_lag_vs_top = Series(prev.g, n).g_lag_vs_top

(***************************************************************************)
(* C18                                                                     *)
(***************************************************************************)
\* The node is down (up = 0) in the last round, or not configured.
DownOrMissing(n) == n \notin NodeSet(nodes) \/ gauges[n].g_up = 0

\* C18 as stated: every stage tied to a live node (03 to the reference node,
\* 06 to Geth v1.10.0, 08 to Geth v1.9.25, 11 to Geth v1.0.3) is NOT_STARTED
\* in every round in which that node is down or not configured.
C18_DownNodeNotStarted ==
    rounds >= 1
    => /\ DownOrMissing(nodes[1]) => g_stage_status[S03] = NOT_STARTED
       /\ DownOrMissing(V1100) => g_stage_status[S06] = NOT_STARTED
       /\ DownOrMissing(V1925) => g_stage_status[S08] = NOT_STARTED
       /\ DownOrMissing(V103) => g_stage_status[S11] = NOT_STARTED

\* C18 (amended): stages 03, 06 and 11 are NOT_STARTED in every round in
\* which their node is down or not configured; stage 08 is NOT_STARTED in
\* such a round when the legacy chain is disabled or neither the v1.9.25
\* import done-marker nor the v1.9.25 import log exists, and otherwise it is
\* DONE (done-marker, or an imported block at or above the cutoff in the
\* log) or IN_PROGRESS.
C18_LiveNodeStages ==
    rounds >= 1
    => /\ DownOrMissing(nodes[1]) => g_stage_status[S03] = NOT_STARTED
       /\ DownOrMissing(V1100) => g_stage_status[S06] = NOT_STARTED
       /\ DownOrMissing(V103) => g_stage_status[S11] = NOT_STARTED
       /\ DownOrMissing(V1925)
            => LET cur == ReadLegacyLogs(legacy_enabled, files).v925_import_current IN
               g_stage_status[S08] =
                 (IF ~legacy_enabled THEN NOT_STARTED
                  ELSE IF Exists(files.v925_import_done_path) THEN DONE
                  ELSE IF Exists(files.v925_import_log_path)
                       THEN (IF cur >= cutoff_block THEN DONE ELSE IN_PROGRESS)
                  ELSE NOT_STARTED)

\* Geth v1.9.25 is down while the log of its offline import lies on disk:
\* stage 08 shows the import, and stage 06 of the running Geth v1.10.0 is DONE.
C18_Witness ==
    /\ rounds >= 1
    /\ nodes = FullNodes
    /\ gauges[V1925].g_up = 0
    /\ ~Exists(files.v925_import_done_path)
    /\ Exists(files.v925_import_log_path)
    /\ g_stage_status[S08] = IN_PROGRESS
    /\ g_stage_status[S06] = DONE

(***************************************************************************)
(* C19                                                                     *)
(***************************************************************************)
\* The status a cutoff-gated stage takes for the effective head e.
CutoffStatus(e) ==
    IF e >= cutoff_block THEN DONE ELSE IF e > 0 THEN IN_PROGRESS ELSE NOT_STARTED

\* C19: for the cutoff-gated stages 06 (Geth v1.10.0) and 11 (Geth v1.0.3),
\* when the node is up with effective head e, the stage is DONE if
\* e >= cutoff, IN_PROGRESS if 0 < e < cutoff, and NOT_STARTED if e = 0.
C19_CutoffStages ==
    rounds >= 1
    => /\ (V1100 \in NodeSet(nodes) /\ gauges[V1100].g_up = 1)
            => g_stage_status[S06] = CutoffStatus(gauges[V1100].g_effective_head)
       /\ (V103 \in NodeSet(nodes) /\ gauges[V103].g_up = 1)
            => g_stage_status[S11] = CutoffStatus(gauges[V103].g_effective_head)

\* Geth v1.10.0 is exactly at the cutoff, and Geth v1.0.3 at 1149999, below it.
C19_Witness ==
    /\ rounds >= 1
    /\ nodes = FullNodes
    /\ gauges[V1100].g_up = 1
    /\ gauges[V1100].g_effective_head = cutoff_block
    /\ g_stage_status[S06] = DONE
    /\ gauges[V103].g_up = 1
    /\ gauges[V103].g_effective_head = GETH_V1_0_3_TARGET_BLOCK
    /\ g_stage_status[S11] = IN_PROGRESS

(***************************************************************************)
(* C20                                                                     *)
(***************************************************************************)
\* The evidence of each export/import step in the files the last round read:
\* its done-marker with the corroboration the code asks for (done), its
\* in-progress marker (marker), and what its log or progress file shows
\* (progress).
Evidence04 ==
    [done |-> Exists(files.export_done_path),
     marker |-> Exists(files.export_marker_path),
     progress |-> LastDone(files.export_progress_path).some]

Evidence05 ==
    [done |-> Exists(files.seed_done_path),
     marker |-> Exists(files.import_marker_path),
     progress |-> SeedLogImport(files).importing]

Evidence07 ==
    [done |-> Exists(files.v110_export_done_path) /\ ExportFileOk(files.v110_export_file_path),
     marker |-> Exists(files.v110_export_marker_path),
     progress |-> ReadLegacyLogs(legacy_enabled, files).v110_export_current > 0]

Evidence09 ==
    [done |-> Exists(files.v136_export_done_path) /\ ExportFileOk(files.v136_export_file_path),
     marker |-> Exists(files.v136_export_marker_path),
     progress |-> LastDone(files.v136_export_progress_path).some]

Evidence10 ==
    [done |-> /\ Exists(files.v136_seed_done_path)
              /\ GetOr(sampled.node_effective_head, V136, 0) >= cutoff_block,
     marker |-> Exists(files.v136_import_marker_path),
     progress |-> /\ Exists(files.v136_import_log_path)
                  /\ ReadTail(files.v136_import_log_path).ok
                  /\ MentionsImport(ReadTail(files.v136_import_log_path).v)]

\* DONE over the in-progress marker over observed progress over NOT_STARTED.
Priority(e) ==
    IF e.done THEN DONE
    ELSE IF e.marker THEN IN_PROGRESS
    ELSE IF e.progress THEN IN_PROGRESS
    ELSE NOT_STARTED

ByProgressFile(file) ==
    IF LastDone(file).v >= cutoff_block THEN DONE ELSE IN_PROGRESS

V136DoneEffective ==
    /\ Exists(files.v136_seed_done_path)
    /\ GetOr(sampled.node_effective_head, V136, 0) >= cutoff_block

\* C21: stage 10 is DONE, and the Import (RLP -> v1.3.6) phase row shows
\* current = cutoff, only in rounds where the v1.3.6 done-marker exists and
\* the effective head sampled for Geth v1.3.6 in that round is at least the
\* cutoff; with the marker present but the node down or below the cutoff,
\* neither is reported as complete.
C21_DoneMarkerNeedsHead ==
    rounds >= 1
    => /\ g_stage_status[S10] = DONE => V136DoneEffective
       /\ gauges[RowImport136].g_effective_head = cutoff_block => V136DoneEffective

(***************************************************************************)
(* C28                                                                     *)
(***************************************************************************)
\* The row reports up = 1.
RowUp(label) == gauges[label].g_up = 1

\* C28: for every phase row, up = 1 in a round exactly when the step's
\* in-progress marker is present; files that are merely left on disk (output
\* file, done-marker, log file, progress file) never make a phase row report
\* up = 1. The legacy rows are taken while a legacy node is configured; the
\* v1.9.25 import has no in-progress marker.
C28_UpIsMarker ==
    rounds >= 1
    => /\ RowUp(RowExport) <=> Exists(files.export_marker_path)
       /\ RowUp(RowImport) <=> Exists(files.import_marker_path)
       /\ legacy_enabled
            => /\ RowUp(RowExport110) <=> Exists(files.v110_export_marker_path)
               /\ ~RowUp(RowImport925)
               /\ RowUp(RowExport925) <=> Exists(files.v136_export_marker_path)
               /\ RowUp(RowImport136) <=> Exists(files.v136_import_marker_path)

(***************************************************************************)
(* C30                                                                     *)
(***************************************************************************)
LogPaths == {"seed_log_path", "v136_import_log_path", "v925_import_log_path",
             "v110_export_log_path"}
ProgressPaths == {"export_progress_path", "v136_export_progress_path"}

\* The log exists and cannot be read, or a number it shows does not convert.
BadLog(file) ==
    /\ Exists(file)
    /\ \/ ~file.readable
       \/ \E i \in 1..Len(file.lines) :
            /\ file.lines[i].form \in {"segment", "segment_fields", "old", "exporting"}
            /\ ~ParseDigits(Degroup(file.lines[i].num), 10).ok

\* The progress file exists and yields no last_done.
BadProgress(file) == Exists(file) /\ ~LastDone(file).some

\* The files with every unreadable or unparsable log or progress file
\* replaced by blank.
Replaced(f, blank) ==
    [p \in DOMAIN f |->
        IF (p \in LogPaths /\ BadLog(f[p])) \/ (p \in ProgressPaths /\ BadProgress(f[p]))
        THEN blank ELSE f[p]]

\* The stage statuses 03 to 11 and the phase-row values a round over the
\* files f gives for the nodes as the last round sampled them.
FileOutputs(f) ==
    LET logs == ReadLegacyLogs(legacy_enabled, f)
        sv == StageVars(f, sampled.node_effective_head)
        rows == PhaseRows(NoGauges, legacy_enabled, Stage05Locals(locals, f), f, logs, sv).rows
        st == StageChecklist(legacy_enabled, nodes[1], LighthouseDown, None, 0, f, logs,
                             sampled.node_up, sampled.node_syncing,
                             sampled.node_effective_head)
    IN  [stage |-> [s \in Stages \ {S01, S02} |-> st[s]],
         rows |-> [r \in PhaseRowLabels |->
                     RowValues([l \in DOMAIN rows |-> rows[l].series], r)]]

\* The same of the last round.
LastOutputs ==
    [stage |-> [s \in Stages \ {S01, S02} |-> g_stage_status[s]],
     rows |-> [r \in PhaseRowLabels |-> RowValues(gauges, r)]]

FileOutputsAgree == rounds >= 1 => LastOutputs = FileOutputs(files)
(***************************************************************************)
(* C27                                                                     *)
(***************************************************************************)
\* s without its surrounding blanks and in lower case.
Trimmed(s) == Lower(Strip(s))

\* s is one or more digits of the base.
IsDigits(s, base) == s # <<>> /\ \A i \in 1..Len(s) : IsDigitOf(s[i], base)

\* The string is a 0x-prefixed hex number, or a decimal number.
IsHexString(s) == StartsWith0x(Trimmed(s)) /\ IsDigits(SubSeq(Trimmed(s), 3, Len(Trimmed(s))), 16)
IsDecimalString(s) == IsDigits(Trimmed(s), 10)

RECURSIVE PlaceValue(_, _)
\* The number the digits s denote in the base: the last digit, plus the base
\* times the number the digits before it denote.
PlaceValue(s, base) ==
    IF s = <<>> THEN 0
    ELSE DigitMap[s[Len(s)]] + base * PlaceValue(SubSeq(s, 1, Len(s) - 1), base)

\* C27: hex_to_int returns the integer value for a 0x-prefixed hex string,
\* for a decimal string and for a native integer, returns 0 for null, and
\* fails with TypeError for every other input, a string that is not a number
\* and a boolean included.
C27_HexToInt ==
    (call.fn = "hex_to_int" /\ call.done)
    => LET a == call.arg
           o == call.out
       IN  IF a.k = "null" THEN o = Ok(0)
           ELSE IF a.k = "int" THEN o = Ok(a.n)
           ELSE IF a.k = "str" /\ IsHexString(a.s)
                THEN o = Ok(PlaceValue(SubSeq(Trimmed(a.s), 3, Len(Trimmed(a.s))), 16))
           ELSE IF a.k = "str" /\ IsDecimalString(a.s)
                THEN o = Ok(PlaceValue(Trimmed(a.s), 10))
           ELSE o = Raise("TypeError")

\* What holds of every input: as C27, but a boolean is returned as the
\* integer it is, and a string that is not a number fails with ValueError.
HexToIntOutcomes ==
    (call.fn = "hex_to_int" /\ call.done)
    => LET a == call.arg
           o == call.out
       IN  IF a.k = "null" THEN o = Ok(0)
           ELSE IF a.k = "int" THEN o = Ok(a.n)
           ELSE IF a.k = "bool" THEN o = Ok(IF a.b THEN 1 ELSE 0)
           ELSE IF a.k = "str" /\ IsHexString(a.s)
                THEN o = Ok(PlaceValue(SubSeq(Trimmed(a.s), 3, Len(Trimmed(a.s))), 16))
           ELSE IF a.k = "str" /\ IsDecimalString(a.s)
                THEN o = Ok(PlaceValue(Trimmed(a.s), 10))
           ELSE IF a.k = "str" THEN o = Raise("ValueError")
           ELSE o = Raise("TypeError")

(***************************************************************************)
(* C26                                                                     *)
(***************************************************************************)
\* The items of a node list: what stands between its commas.
ItemsOf(node_urls) == Split(Strip(node_urls), ",")

Blank(item) == Strip(item) = <<>>
LacksEquals(item) == \A i \in 1..Len(item) : item[i] # "="
NameOf(item) == Strip(SubSeq(item, 1, Find(item, "=", 1) - 1))
UrlOf(item) == Strip(SubSeq(item, Find(item, "=", 1) + 1, Len(item)))
\* The item lacks '=' or has an empty name or url.
BadItem(item) == LacksEquals(item) \/ NameOf(item) = <<>> \/ UrlOf(item) = <<>>

\* The value is set and is not a number.
NotAnInt(raw) == raw # <<>> /\ ~IsDigits(Strip(raw), 10)
NotAFloat(raw) == raw # <<>> /\ ~EnvFloat(raw).ok

\* The node list names no node.
EmptyNodeList(node_urls) == \A i \in 1..Len(ItemsOf(node_urls)) : Blank(ItemsOf(node_urls)[i])

\* C26 as stated: startup fails immediately on any malformed configuration:
\* main() raises when an item of the node list lacks '=' or has an empty
\* name or url, an empty item between commas included, when the node list is
\* empty, and when the port, the interval or the cutoff is not a number.
C26_FailFast ==
    (call.fn = "main" /\ call.done)
    => LET items == ItemsOf(call.arg.NODE_URLS) IN
       (\/ \E i \in 1..Len(items) : BadItem(items[i])
        \/ EmptyNodeList(call.arg.NODE_URLS)
        \/ NotAnInt(call.arg.PORT)
        \/ NotAFloat(call.arg.POLL_INTERVAL_SECONDS)
        \/ NotAnInt(call.arg.CUTOFF_BLOCK))
       => ~call.out.ok

\* C26 (amended): startup fails immediately on a malformed node list: main()
\* raises exactly when a non-empty item of the node list lacks '=' or has an
\* empty name or url, or the node list is empty; an empty item between commas
\* is skipped, and a port, interval or cutoff that is not a number is replaced
\* by its default: the Poller gets the nodes of the non-empty items in their
\* order.
C26_FailFastOnNodes ==
    (call.fn = "main" /\ call.done)
    => LET items == ItemsOf(call.arg.NODE_URLS)
           named == SelectSeq(items, LAMBDA item : ~Blank(item))
           port == call.arg.PORT
           interval == call.arg.POLL_INTERVAL_SECONDS
           cutoff == call.arg.CUTOFF_BLOCK
       IN  IF \/ \E i \in 1..Len(named) : BadItem(named[i])
              \/ EmptyNodeList(call.arg.NODE_URLS)
           THEN call.out = Raise("ValueError")
           ELSE /\ call.out.ok
                /\ call.out.v.poller.nodes =
                     [i \in 1..Len(named) |->
                        [name |-> NameOf(named[i]), url |-> UrlOf(named[i])]]
                /\ call.out.v.port =
                     IF port = <<>> \/ NotAnInt(port) THEN 9100
                     ELSE PlaceValue(Strip(port), 10)
                /\ call.out.v.poller.interval_seconds =
                     IF interval = <<>> \/ NotAFloat(interval) THEN Frac(10, 1)
                     ELSE EnvFloat(interval).v
                /\ call.out.v.cutoff_block =
                     IF cutoff = <<>> \/ NotAnInt(cutoff) THEN 1919999
                     ELSE PlaceValue(Strip(cutoff), 10)

\* main() was given a node list whose second item lacks '=', and raised.
C26_Witness ==
    /\ call.fn = "main"
    /\ call.done
    /\ call.arg.NODE_URLS = <<"a", "=", "u", ",", "a">>
    /\ call.out = Raise("ValueError")
(***************************************************************************)
(* C29                                                                     *)
(***************************************************************************)
\* The labels of the rows a round emits.
EmittedRows ==
    (IF lighthouse_api_url THEN {lighthouse_label} ELSE {})
    \cup NodeSet(nodes)
    \cup PhaseRowLabels

\* C29: at the end of every completed round the stage gauge holds exactly one
\* status in {0, 1, 2} for each of the eleven stages 01 to 11, and the
\* progress-info gauge holds exactly one progress label per emitted row (the
\* beacon row if configured, each configured node, each phase row) and none
\* for any other label, whatever was emitted in earlier rounds.
C29_NoStaleSeries ==
    (rounds >= 1 /\ alive)
    => /\ DOMAIN g_stage_status = Stages
       /\ Cardinality(Stages) = 11
       /\ \A stage \in Stages : g_stage_status[stage] \in {NOT_STARTED, IN_PROGRESS, DONE}
       /\ DOMAIN g_sync_progress_info = EmittedRows
       /\ \A label \in EmittedRows : Cardinality(g_sync_progress_info[label]) = 1

\* A second round has completed after a node stopped answering: the node's
\* progress label of the round before is gone, "down" is the only one.
C29_Witness ==
    /\ rounds >= 2
    /\ alive
    /\ focus \in NodeSet(nodes)
    /\ focus \in DOMAIN prev.info
    /\ prev.info[focus] # {Info(TextLabel("down"), 0)}
    /\ g_sync_progress_info[focus] = {Info(TextLabel("down"), 0)}

(***************************************************************************)
(* C22                                                                     *)
(***************************************************************************)
\* What a completed round shows of the export done-marker: the target policy
\* of Geth v1.16.7 (the cutoff until the export is done), stage 04, and the
\* current of the export row.
TargetSaysExportDone == gauges[V1167].g_sync_target # cutoff_block
StageSaysExportDone == g_stage_status[S04] = DONE
RowSaysExportDone == gauges[RowExport].g_effective_head = cutoff_block

\* The same of the seed done-marker: the gate of Geth v1.11.6, stage 05, and
\* the current of the import row.
GateSaysSeedDone == g_sync_progress_info[V1116] # {Info(TextLabel("gated (waiting for seed)"), 0)}
StageSaysSeedDone == g_stage_status[S05] = DONE
RowSaysSeedDone == gauges[RowImport].g_effective_head = cutoff_block

\* C22: within one round every decision that depends on a marker uses the
\* same observation of it: when a round completes, whatever the batch job
\* created or deleted while it ran, the node target policy, the stage status
\* and the phase row derived from the marker agree (stage 04 is DONE exactly
\* when the export row shows current = cutoff because of the done-marker).
C22_OneObservation ==
    (pc = "waiting" /\ rounds >= 1)
    => /\ StageSaysExportDone <=> RowSaysExportDone
       /\ StageSaysExportDone <=> TargetSaysExportDone
       /\ StageSaysSeedDone <=> RowSaysSeedDone
       /\ StageSaysSeedDone <=> GateSaysSeedDone

\* The decisions agree in every completed round during which no marker
\* changed.
AgreeWhenUnchanged == (pc = "waiting" /\ rounds >= 1 /\ carry.flips = 0) => C22_OneObservation

(***************************************************************************)
(* C23                                                                     *)
(***************************************************************************)
\* The label sets rendered are complete: the eleven stages, and one progress
\* label for each row.
Complete(stage, info) ==
    /\ DOMAIN stage = Stages
    /\ DOMAIN info = EmittedRows
    /\ \A label \in DOMAIN info : Cardinality(info[label]) = 1

\* C23: a /metrics request served while a round is running, after a round
\* has completed, renders the complete set of stage statuses and progress
\* rows written by one single round: never an empty or partial set, and never
\* a mix of two rounds.
C23_WholeRound ==
    (seen.some /\ seen.during \in MidRound /\ seen.rounds >= 1)
    => /\ Complete(seen.stage, seen.info)
       /\ [stage |-> seen.stage, info |-> seen.info] = seen.last

\* A request served between two rounds renders the complete set the last
\* round wrote.
WholeBetweenRounds ==
    (seen.some /\ seen.during = "waiting")
    => /\ Complete(seen.stage, seen.info)
       /\ [stage |-> seen.stage, info |-> seen.info] = seen.last

(***************************************************************************)
(* C24                                                                     *)
(***************************************************************************)
\* C24: once the stop signal is set, the clock of the loop does not advance
\* (a waiting loop wakes without waiting for the rest of the interval), no
\* round is begun, and no round completes (a loop in the middle of a round
\* observes the signal before that round completes).
C24_StopObserved ==
    [][stop => /\ now' = now
               /\ ~(pc = "top" /\ pc' = "cleared")
               /\ rounds' = rounds]_vars

\* C24, the loop between rounds: once the stop signal is set, the wait ends
\* without the clock advancing and no round is begun.
StopBetweenRounds ==
    [][stop => /\ now' = now
               /\ ~(pc = "top" /\ pc' = "cleared")]_vars

\* C24, termination: once the stop signal is set, the thread ends (under
\* FairSteps).
StopTerminates == stop ~> pc \in {"exited", "crashed"}

(***************************************************************************)
(* C25                                                                     *)
(***************************************************************************)
\* C25: no event inside a round terminates the polling loop: whatever the
\* files are and however the markers appear or disappear between two reads of
\* a round, the first round included, the thread ends only by leaving its
\* loop on the stop signal.
C25_NothingFatal == alive /\ pc # "crashed" /\ (pc = "exited" => stop)

\* Without a marker changing, no round raises.
NothingFatalWhenUnchanged == carry.flips = 0 => C25_NothingFatal

(***************************************************************************)
(* C31                                                                     *)
(***************************************************************************)
\* The two real nodes each phase row sits between: the node its data comes
\* from and the node that imports it.
RowBetween ==
    RowExport :> <<V1167, V1116>> @@ RowImport :> <<V1167, V1116>>
    @@ RowExport110 :> <<V1100, V1925>> @@ RowImport925 :> <<V1100, V1925>>
    @@ RowExport925 :> <<V1925, V136>> @@ RowImport136 :> <<V1925, V136>>

SortKey(label) == gauges[label].g_sort_key

\* The sort keys of the nodes and of the beacon row, and their distinctness.
SortKeysOfNodes ==
    /\ \A i \in 1..Len(nodes) : SortKey(nodes[i]) = i * 100
    /\ lighthouse_api_url => SortKey(lighthouse_label) = 0
    /\ \A a, b \in EmittedRows : a # b => SortKey(a) # SortKey(b)

\* The phase row lies strictly between its two nodes, where both are configured.
RowInterleaved(row) ==
    LET before == RowBetween[row][1]
        after == RowBetween[row][2]
    IN  (before \in NodeSet(nodes) /\ after \in NodeSet(nodes))
        => (SortKey(before) < SortKey(row) /\ SortKey(row) < SortKey(after))

\* C31: every configured node gets as sort key its 1-based position, the
\* beacon row gets 0, all emitted rows have pairwise distinct sort keys, and
\* each phase row's sort key lies strictly between the sort keys of the two
\* real nodes it sits between.
C31_SortKeys ==
    (rounds >= 1 /\ alive)
    => /\ SortKeysOfNodes
       /\ \A row \in PhaseRowLabels : RowInterleaved(row)

\* What holds of the sort keys: all of C31 but for the row Import (RLP ->
\* v1.9.25), which lies after Geth v1.9.25.
SortKeysButImport925 ==
    (rounds >= 1 /\ alive)
    => /\ SortKeysOfNodes
       /\ \A row \in PhaseRowLabels \ {RowImport925} : RowInterleaved(row)
       /\ V1925 \in NodeSet(nodes) => SortKey(RowImport925) > SortKey(V1925)

(***************************************************************************)
(* C32                                                                     *)
(***************************************************************************)
\* The number a captured group denotes with its commas removed; 0 when
\* nothing but commas was captured.
GroupedValue(num) ==
    LET digits == SelectSeq(num, LAMBDA c : c # ",") IN
    IF IsDigits(digits, 10) THEN PlaceValue(digits, 10) ELSE 0

\* The indices of the lines of the given forms.
LinesOf(lines, forms) == {i \in 1..Len(lines) : lines[i].form \in forms}
LastOf(S) == CHOOSE i \in S : \A j \in S : j <= i

\* The number of the last line of any of the forms; 0 when there is none.
LastOfAny(lines, forms) ==
    IF LinesOf(lines, forms) = {} THEN 0
    ELSE GroupedValue(lines[LastOf(LinesOf(lines, forms))].num)

\* The number of the last line of the modern form if there is one, else of
\* the last line of the old form; 0 when there is neither.
ModernFirst(lines) ==
    IF LinesOf(lines, {"segment"}) # {} THEN LastOfAny(lines, {"segment"})
    ELSE LastOfAny(lines, {"old"})

\* The seed log was read by stage 05 of the last round.
SeedLogRead ==
    /\ rounds >= 1
    /\ ~Exists(files.seed_done_path)
    /\ Exists(files.seed_log_path)
    /\ files.seed_log_path.readable

\* The v1.3.6 import log was read by stage 10 of the last round, and the
\* import row shows its number (Geth v1.3.6 is at 0).
V136LogRead ==
    /\ rounds >= 1
    /\ legacy_enabled
    /\ ~V136DoneEffective
    /\ v136_export_started(files)
    /\ GetOr(sampled.node_effective_head, V136, 0) = 0
    /\ Exists(files.v136_import_log_path)
    /\ files.v136_import_log_path.readable

Heard ==
    IF lighthouse_metrics_url /\ beacon.metrics.kind = "result"
    THEN beacon.metrics.result ELSE <<>>

\* The value the Prometheus text format gives the metric in the lines.
Exposed(lines, metric) ==
    LET at == {i \in 1..Len(lines) :
                  lines[i].metric = metric /\ lines[i].form = "exposition"}
    IN  IF at = {} THEN None
        ELSE Some(PlaceValue(lines[CHOOSE i \in at : \A j \in at : i <= j].num, 10))

WorkersExposed == Exposed(Heard, WorkersMetric)
TotalExposed == Exposed(Heard, BackfillTotalMetric)

\* The last round found the beacon API up, and the beacon answers as it did
\* in that round.
BeaconUp ==
    /\ rounds >= 1
    /\ alive
    /\ ~changed
    /\ lighthouse_label \in DOMAIN gauges
    /\ gauges[lighthouse_label].g_up = 1

\* The sync status of the beacon row says the beacon has caught up.
BeaconCaughtUp ==
    /\ gauges[lighthouse_label].g_syncing = 0
    /\ gauges[lighthouse_label].g_sync_remaining = 0

\* C33: when the beacon API is up, stage 02 is IN_PROGRESS in every round in
\* which the backfill worker gauge of the metrics is above 0; when neither
\* the worker gauge nor the success counter is in the metrics, the stage is
\* DONE exactly when the beacon is not syncing and its sync distance is 0.
C33_BackfillSignals ==
    BeaconUp =>
        /\ (WorkersExposed.some /\ WorkersExposed.v > 0) => g_stage_status[S02] = IN_PROGRESS
        /\ (~WorkersExposed.some /\ ~TotalExposed.some)
             => g_stage_status[S02] = IF BeaconCaughtUp THEN DONE ELSE IN_PROGRESS

\* What holds of the code: stage 02 follows the sync status whatever the
\* metrics say.
Stage02FollowsSyncStatus ==
    BeaconUp => g_stage_status[S02] = IF BeaconCaughtUp THEN DONE ELSE IN_PROGRESS

(***************************************************************************)
(* C34                                                                     *)
(***************************************************************************)
\* The phase row of each export or import stage.
RowOfStage ==
    S04 :> RowExport @@ S05 :> RowImport @@ S07 :> RowExport110
    @@ S08 :> RowImport925 @@ S09 :> RowExport925 @@ S10 :> RowImport136

\* A round has written the stages and the rows of the files as they are.
RowsWritten == rounds >= 1 /\ alive /\ ~changed

\* C34: whenever an export or import stage (04, 05, 07, 08, 09, 10) is
\* DONE, its phase row reports a current equal to its target and is not
\* marked running; and no phase row reports a current above its target.
C34_StageAndRowAgree ==
    RowsWritten =>
        /\ \A s \in DOMAIN RowOfStage :
              g_stage_status[s] = DONE
                 => /\ gauges[RowOfStage[s]].g_effective_head = gauges[RowOfStage[s]].g_sync_target
                    /\ gauges[RowOfStage[s]].g_syncing = 0
        /\ \A s \in DOMAIN RowOfStage :
              gauges[RowOfStage[s]].g_effective_head <= gauges[RowOfStage[s]].g_sync_target


\* A DONE stage and its row agree.
DoneRowComplete(s) ==
    g_stage_status[s] = DONE
       => /\ gauges[RowOfStage[s]].g_effective_head = gauges[RowOfStage[s]].g_sync_target
          /\ gauges[RowOfStage[s]].g_syncing = 0

\* What holds of the code: the rows of stages 05, 07 and 10 are complete
\* when their stage is DONE.
StageAndRowAgreeOnThree ==
    RowsWritten => \A s \in {S05, S07, S10} : DoneRowComplete(s)


(***************************************************************************)
(* C35                                                                     *)
(***************************************************************************)
\* The stage of each legacy node with a fixed target.
StageOfNode == V1925 :> S08 @@ V136 :> S10 @@ V103 :> S11

\* The fixed target of each of them.
FixedTargetOf == V1925 :> cutoff_block @@ V136 :> cutoff_block @@ V103 :> 1149999

\* The node's row says the node is up and has reached its fixed target.
ReachedFixedTarget(n) ==
    /\ n \in NodeSet(nodes)
    /\ gauges[n].g_up = 1
    /\ gauges[n].g_effective_head >= FixedTargetOf[n]
    /\ gauges[n].g_sync_target = FixedTargetOf[n]
    /\ gauges[n].g_sync_remaining = 0

Stage08AtFixedTarget ==
    RowsWritten => (ReachedFixedTarget(V1925) => g_stage_status[S08] = DONE)


(***************************************************************************)
(* C36                                                                     *)
(***************************************************************************)
\* The node's eth_blockNumber probe yielded no height in the last round.
ProbeFailed(n) == RoundRead /\ ~Gated(n) /\ ~HeightOf(n).some

\* C36: when a node's probe fails in a round, the height and the peer count
\* exposed for the node are what they were before the round (not zeroed, not
\* removed), while up, syncing and every progress field are 0; a gated node
\* has height and peer count 0.
C36_LastSeenKept ==
    \A n \in NodeSet(nodes) :
        /\ ProbeFailed(n)
             => /\ gauges[n].g_block = Series(prev.g, n).g_block
                /\ gauges[n].g_peers = Series(prev.g, n).g_peers
                /\ gauges[n].g_up = 0
                /\ gauges[n].g_syncing = 0
                /\ ProgressFields(gauges[n]) = <<0, 0, Zero, 0, 0, 0>>
        /\ (rounds >= 1 /\ Gated(n))
             => gauges[n].g_block = 0 /\ gauges[n].g_peers = 0

\* A node was at the cutoff with 3 peers, then stopped answering: it is down
\* and still shows that height and peer count.
C36_Witness ==
    \E n \in NodeSet(nodes) :
        /\ FailedAfterSuccess(n)
        /\ ProbeFailed(n)
        /\ prev.g[n].g_block = cutoff_block
        /\ prev.g[n].g_peers = 3
        /\ gauges[n].g_up = 0
        /\ gauges[n].g_block = cutoff_block
        /\ gauges[n].g_peers = 3


(***************************************************************************)
(* C37                                                                     *)
(***************************************************************************)
\* C37: in every round in which the files do not change, if Geth v1.11.6 is
\* emitted with up = 1 then stage 05 is DONE and the row Import (RLP ->
\* v1.11.6) shows current = cutoff, running 0 and up 0; that is, while
\* stage 05 is not DONE the node is not shown as up.
C37_BridgeUpAfterSeed ==
    (rounds >= 1 /\ alive /\ ~changed /\ V1116 \in NodeSet(nodes))
    => /\ gauges[V1116].g_up = 1
            => /\ g_stage_status[S05] = DONE
               /\ gauges[RowImport].g_effective_head = cutoff_block
               /\ gauges[RowImport].g_sync_target = cutoff_block
               /\ gauges[RowImport].g_syncing = 0
               /\ gauges[RowImport].g_up = 0
       /\ g_stage_status[S05] # DONE => gauges[V1116].g_up = 0

\* The seed done-marker is there next to a left-over import marker: the
\* bridge is up, stage 05 is DONE and the import row is complete and idle.
C37_Witness ==
    /\ rounds >= 1 /\ alive /\ ~changed
    /\ V1116 \in NodeSet(nodes)
    /\ Exists(files.seed_done_path)
    /\ Exists(files.import_marker_path)
    /\ gauges[V1116].g_up = 1
    /\ g_stage_status[S05] = DONE
    /\ gauges[RowImport].g_effective_head = cutoff_block
    /\ gauges[RowImport].g_up = 0


(***************************************************************************)
(* seed-rlp-from-rpc.py: a block range streamed into an RLP file           *)
(***************************************************************************)
\* A process is followed from one step of main() to the next, so that it
\* can be ended between two of them. For script "seed", tool holds
\*   START_BLOCK, END_BLOCK, BATCH_SIZE   the environment variables
\*   progress_path   the progress file
\*   out             the blocks in OUT_FILE, in the order of their bytes
\*   buf             the blocks written to f that its buffer still holds
\*   pc              "idle", "loop", "write", "progress" while a process runs,
\*                   "done" (returned 0), "failed" (raised), "killed"
\*   start_block, n, bn, chunk_last, last_done   the locals of main()
\*   missing         the block of the chunk the batch response lacks (-1: none)
\*   runs            the processes started so far
\*   ended           those of them that were killed or that failed
MaxBlock == 2
MaxRuns == 3
BatchSizes == {1, 2}

SeedRunning == {"loop", "write", "progress"}

\* lines 40-47
_load_last_done(progress_path) ==
    IF ~Exists(progress_path) THEN None
    ELSE IF ~progress_path.readable \/ progress_path.json.k # "obj" THEN None
    ELSE LET n == PyInt(Get(progress_path.json, "last_done")) IN
         IF n.ok THEN Some(n.v) ELSE None

\* lines 128-129
write_progress(n) == JsonFile(JObj([last_done |-> JInt(n)]))

\* Leaving the with block closes f: what its buffer holds reaches the file.
CloseFile(t) == [t EXCEPT !.out = t.out \o t.buf, !.buf = <<>>]

\* The exporter stands by while a script is followed.
ExporterIdle ==
    /\ nodes = PlainNodes
    /\ focus = "tool"
    /\ rpc = Steady(nodes)
    /\ files = NoFiles
    /\ beacon = SteadyBeacon
    /\ lighthouse_api_url = FALSE
    /\ lighthouse_metrics_url = FALSE
    /\ call = NoCall
    /\ InitProgram
    /\ pc = "top"
    /\ stop = FALSE
    /\ carry = NoCarry
    /\ seen = NoScrape

InitSeed ==
    /\ ExporterIdle
    /\ \E s \in 0..1, e \in 1..MaxBlock, b \in BatchSizes :
            tool = [script |-> "seed", START_BLOCK |-> s, END_BLOCK |-> e, BATCH_SIZE |-> b,
                    progress_path |-> Absent, out |-> <<>>, buf |-> <<>>, pc |-> "idle",
                    start_block |-> s, n |-> s, bn |-> s, chunk_last |-> s, last_done |-> None,
                    missing |-> -1, runs |-> 0, ended |-> 0]

\* main() up to the loop (lines 50-75, 131-132): a process is started, the
\* first or after an earlier one ended.
SeedMain ==
    /\ tool.script = "seed"
    /\ tool.pc \notin SeedRunning
    /\ tool.runs < MaxRuns
    /\ LET last_done == _load_last_done(tool.progress_path)
           start_block == IF last_done.some
                          THEN Max(tool.START_BLOCK, last_done.v + 1)
                          ELSE tool.START_BLOCK
       IN  tool' = [tool EXCEPT !.runs = @ + 1, !.last_done = last_done,
                                !.start_block = start_block, !.n = start_block,
                                !.buf = <<>>,
                                !.pc = IF start_block > tool.END_BLOCK THEN "done" ELSE "loop"]
    /\ UNCHANGED exporter

\* The loop test and the batch request (lines 133-147); the response may
\* lack a block of the chunk or hold an error for it. After the last chunk
\* the with block is left and main() returns 0.
SeedRpcPost ==
    /\ tool.script = "seed"
    /\ tool.pc = "loop"
    /\ IF tool.n > tool.END_BLOCK
       THEN tool' = [CloseFile(tool) EXCEPT !.pc = "done"]
       ELSE LET last == IF tool.n + tool.BATCH_SIZE - 1 <= tool.END_BLOCK
                        THEN tool.n + tool.BATCH_SIZE - 1 ELSE tool.END_BLOCK
            IN  \E m \in {-1} \cup (tool.n..last) :
                    tool' = [tool EXCEPT !.pc = "write", !.bn = tool.n, !.chunk_last = last,
                                         !.missing = m]
    /\ UNCHANGED exporter

\* One pass of the for loop (lines 149-160): the block is written to f, or
\* the RuntimeError leaves the with block.
SeedWriteBlock ==
    /\ tool.script = "seed"
    /\ tool.pc = "write"
    /\ IF tool.bn = tool.missing
       THEN tool' = [CloseFile(tool) EXCEPT !.pc = "failed", !.ended = @ + 1]
       ELSE tool' = [tool EXCEPT !.buf = Append(@, tool.bn), !.last_done = Some(tool.bn),
                                 !.bn = @ + 1,
                                 !.pc = IF tool.bn = tool.chunk_last THEN "progress"
                                        ELSE "write"]
    /\ UNCHANGED exporter

\* lines 161-162
SeedWriteProgress ==
    /\ tool.script = "seed"
    /\ tool.pc = "progress"
    /\ tool' = [tool EXCEPT !.progress_path = write_progress(tool.last_done.v),
                            !.n = tool.chunk_last + 1, !.pc = "loop"]
    /\ UNCHANGED exporter

\* The buffer of f passes its oldest block on to the file.
SeedFlush ==
    /\ tool.script = "seed"
    /\ tool.pc \in SeedRunning
    /\ tool.buf # <<>>
    /\ tool' = [tool EXCEPT !.out = Append(@, Head(tool.buf)), !.buf = Tail(@)]
    /\ UNCHANGED exporter

\* The process is killed: what the buffer of f holds is lost.
SeedKill ==
    /\ tool.script = "seed"
    /\ tool.pc \in SeedRunning
    /\ tool' = [tool EXCEPT !.pc = "killed", !.buf = <<>>, !.ended = @ + 1]
    /\ UNCHANGED exporter

NextSeed ==
    SeedMain \/ SeedRpcPost \/ SeedWriteBlock \/ SeedWriteProgress \/ SeedFlush \/ SeedKill
SpecSeed == InitSeed /\ [][NextSeed]_vars

(***************************************************************************)
(* C38                                                                     *)
(***************************************************************************)
\* The blocks first..last in ascending order, each once.
BlockRange(first, last) == [i \in 1..(last - first + 1) |-> first + i - 1]

\* C38: whatever processes were killed or failed before, when a run
\* completes (main() returns 0), OUT_FILE holds every block from START_BLOCK
\* to END_BLOCK exactly once and in ascending order.
C38_ContiguousOutput ==
    (tool.script = "seed" /\ tool.pc = "done")
    => tool.out = BlockRange(tool.START_BLOCK, tool.END_BLOCK)

\* What holds of the code: the same, when no process was killed and none
\* failed.
SeedContiguousWhenUndisturbed ==
    (tool.script = "seed" /\ tool.pc = "done" /\ tool.ended = 0)
    => tool.out = BlockRange(tool.START_BLOCK, tool.END_BLOCK)


(***************************************************************************)
(* mining_controller.py: ethminer stopped for a while after every block    *)
(***************************************************************************)
\* For script "miner", tool holds
\*   pause_s     PAUSE_BETWEEN_BLOCKS_SECONDS
\*   head        the head of geth's chain
\*   miners      the state of each process start_ethminer has started
\*   miner       the process the variable miner refers to (an index)
\*   last_bn     the local of main()
\*   pc          "boot", then "poll", "rpc", "stop", "pause", "start", "sleep"
\*               in the loop, "exited", "interrupted", "crashed" at the end
\*   log         what main() did after the heads it detected
MaxHead == 2
PauseSeconds == {0, 2}

MinerLoop == {"poll", "rpc", "stop", "pause", "start", "sleep"}

\* stop_ethminer as it would be without the SIGKILL after the timeout.
stop_ethminer_by_sigint(p, heeds) ==
    IF p = "exited" THEN p
    ELSE IF heeds THEN "exited"
    ELSE p

\* lines 64-79: nothing to do for a process that has exited; SIGINT to its
\* group; SIGKILL when it has not exited within the timeout. SIGKILL cannot
\* be caught: the process runs no further.
stop_ethminer(p, heeds) ==
    IF p = "exited" THEN p
    ELSE IF heeds THEN "exited"
    ELSE "exited"

InitMiner ==
    /\ ExporterIdle
    /\ \E s \in PauseSeconds :
            tool = [script |-> "miner", pause_s |-> s, head |-> 0, miners |-> <<>>, miner |-> 0,
                    last_bn |-> 0, pc |-> "boot", log |-> <<>>]

\* lines 93-96: the first head is read (an RPC failure ends the script), the
\* miner is started.
MinerBoot ==
    /\ tool.script = "miner"
    /\ tool.pc = "boot"
    /\ \/ tool' = [tool EXCEPT !.pc = "crashed"]
       \/ tool' = [tool EXCEPT !.last_bn = tool.head, !.miners = <<"running">>,
                               !.miner = 1, !.pc = "poll"]
    /\ UNCHANGED exporter

\* lines 100-102
MinerPoll ==
    /\ tool.script = "miner"
    /\ tool.pc = "poll"
    /\ tool' = [tool EXCEPT !.pc = IF tool.miners[tool.miner] = "exited" THEN "exited"
                                   ELSE "rpc"]
    /\ UNCHANGED exporter

\* lines 104-115: the head is read; a failed poll is skipped.
MinerRpc ==
    /\ tool.script = "miner"
    /\ tool.pc = "rpc"
    /\ \/ tool' = [tool EXCEPT !.pc = "sleep"]
       \/ /\ tool.head > tool.last_bn
          /\ tool' = [tool EXCEPT !.last_bn = tool.head, !.log = Append(@, "detect"),
                                  !.pc = IF tool.pause_s > 0 THEN "stop" ELSE "sleep"]
    /\ UNCHANGED exporter

\* line 116
MinerStop ==
    /\ tool.script = "miner"
    /\ tool.pc = "stop"
    /\ \E heeds \in BOOLEAN :
          tool' = [tool EXCEPT !.miners[tool.miner] = stop_ethminer(@, heeds),
                               !.log = Append(@, "stop"), !.pc = "pause"]
    /\ UNCHANGED exporter

\* line 117
MinerPause ==
    /\ tool.script = "miner"
    /\ tool.pc = "pause"
    /\ tool' = [tool EXCEPT !.log = Append(@, "pause"), !.pc = "start"]
    /\ UNCHANGED exporter

\* line 118
MinerStart ==
    /\ tool.script = "miner"
    /\ tool.pc = "start"
    /\ tool' = [tool EXCEPT !.miners = Append(@, "running"), !.miner = Len(tool.miners) + 1,
                            !.log = Append(@, "start"), !.pc = "sleep"]
    /\ UNCHANGED exporter

\* lines 108, 120
MinerSleep ==
    /\ tool.script = "miner"
    /\ tool.pc = "sleep"
    /\ tool' = [tool EXCEPT !.pc = "poll"]
    /\ UNCHANGED exporter

\* lines 122-125: Ctrl-C anywhere in the loop. At line 118 it may come when
\* the new process is started and not yet assigned to miner.
MinerInterrupt ==
    /\ tool.script = "miner"
    /\ tool.pc \in MinerLoop
    /\ \E heeds \in BOOLEAN, spawned \in {FALSE, tool.pc = "start"} :
          tool' = [tool EXCEPT
                      !.miners = [@ EXCEPT ![tool.miner] = stop_ethminer(@, heeds)]
                                 \o (IF spawned THEN <<"running">> ELSE <<>>),
                      !.pc = "interrupted"]
    /\ UNCHANGED exporter

\* geth's chain grows by a block.
HeadGrows ==
    /\ tool.script = "miner"
    /\ tool.pc \in MinerLoop
    /\ tool.head < MaxHead
    /\ tool' = [tool EXCEPT !.head = @ + 1]
    /\ UNCHANGED exporter

\* A miner process exits on its own.
MinerExits ==
    /\ tool.script = "miner"
    /\ tool.pc \in MinerLoop
    /\ \E i \in 1..Len(tool.miners) :
          /\ tool.miners[i] = "running"
          /\ tool' = [tool EXCEPT !.miners[i] = "exited"]
    /\ UNCHANGED exporter

\* The steps of main().
MinerMain ==
    MinerBoot \/ MinerPoll \/ MinerRpc \/ MinerStop \/ MinerPause \/ MinerStart \/ MinerSleep

NextMiner == MinerMain \/ MinerInterrupt \/ HeadGrows \/ MinerExits
SpecMiner == InitMiner /\ [][NextMiner]_vars
\* main() is not held up for ever.
FairMiner == SpecMiner /\ WF_vars(MinerMain)


(***************************************************************************)
(* C39                                                                     *)
(***************************************************************************)
\* The processes of the controller that run.
RunningMiners == {i \in 1..Len(tool.miners) : tool.miners[i] = "running"}

\* After each detected head the log goes on with stop, pause, start, as far
\* as it goes, and holds these nowhere else.
StopPauseStart ==
    \A i \in 1..Len(tool.log) :
        /\ tool.log[i] = "stop" <=> (i > 1 /\ tool.log[i - 1] = "detect")
        /\ tool.log[i] = "pause" <=> (i > 1 /\ tool.log[i - 1] = "stop")
        /\ tool.log[i] = "start" <=> (i > 1 /\ tool.log[i - 1] = "pause")

\* main() has just detected a head.
Detected ==
    tool.script = "miner" /\ tool.log # <<>> /\ tool.log[Len(tool.log)] = "detect"

\* The miner was restarted after the last detected head, or Ctrl-C ended
\* the controller.
Restarted ==
    tool.pc = "interrupted" \/ (tool.log # <<>> /\ tool.log[Len(tool.log)] = "start")

\* C39: with a pause configured (> 0), every detected increase of the head
\* is followed by stopping the miner, pausing and restarting it, in this
\* order (unless Ctrl-C ends the controller first); at most one miner
\* process the controller started runs at any time; none runs during the
\* pause; and when the controller sees that the miner has exited on its
\* own, its next step is to exit.
C39_DutyCycle ==
    /\ []((tool.script = "miner" /\ tool.pause_s > 0)
            => /\ StopPauseStart
               /\ Cardinality(RunningMiners) <= 1
               /\ tool.pc \in {"pause", "start"} => RunningMiners = {})
    /\ [][(tool.pause_s > 0 /\ tool.pc = "poll" /\ tool.miners[tool.miner] = "exited"
           /\ tool'.pc # tool.pc)
            => tool'.pc \in {"exited", "interrupted"}]_vars
    /\ ((Detected /\ tool.pause_s > 0) ~> Restarted)

\* Two heads were detected with a pause configured, each followed by a stop,
\* a pause and a start, and the second miner runs alone.
C39_Witness ==
    /\ tool.script = "miner"
    /\ tool.pause_s > 0
    /\ tool.log = <<"detect", "stop", "pause", "start", "detect", "stop", "pause", "start">>
    /\ tool.miners = <<"exited", "exited", "running">>


(***************************************************************************)
(* geth_time_stepper.py: geth restarted under a stepped fake clock         *)
(***************************************************************************)
\* For script "stepper", tool holds
\*   step_s      FAKETIME_STEP_SECONDS
\*   real        the wall clock, for the boot run
\*   chain       the timestamps of the blocks of geth's chain, the latest last
\*   geths       the processes start_geth has started: state, the fake time
\*               given (none for the boot run), the latest timestamp when it
\*               was started, and how many blocks it has mined
\*   p           the process the variable p refers to (an index)
\*   pc          "boot", "boot_read", "boot_stop", then "loop", "wait",
\*               "inner", "finally" in the loop; "crashed", "interrupted"
\*   raised      an exception passes through the finally clause
\*   start_bn, head_ts, next_time   the locals of main()
MaxChain == 4
StepSeconds == {5}
\* The wall clock of the boot run.
BootClocks == {2}

StepperTry == {"boot_read", "wait", "inner"}

\* lines 71-80: nothing to do for a process that has exited; SIGINT; kill
\* when it has not exited within the timeout.
stop_geth(g, heeds) ==
    IF g.state = "exited" THEN g
    ELSE IF heeds THEN [g EXCEPT !.state = "exited"]
    ELSE [g EXCEPT !.state = "exited"]

\* lines 66-68, with FAKETIME of env_for_fake_time (96-103) or without.
start_geth(fake, chain) ==
    [state |-> "running", fake |-> fake, parent_ts |-> chain[Len(chain)], mined |-> 0]

\* lines 46-52
latest_timestamp(chain) == chain[Len(chain)]

\* lines 41-43: the height of the head.
eth_block_number(chain) == Len(chain) - 1

InitStepper ==
    /\ ExporterIdle
    /\ \E s \in StepSeconds, c \in BootClocks :
            tool = [script |-> "stepper", step_s |-> s, real |-> c, chain |-> <<0>>, geths |-> <<>>, p |-> 0,
                    pc |-> "boot", raised |-> FALSE, start_bn |-> 0, head_ts |-> 0,
                    next_time |-> 0]

\* line 107
StepperBoot ==
    /\ tool.script = "stepper"
    /\ tool.pc = "boot"
    /\ tool' = [tool EXCEPT !.geths = <<start_geth(None, tool.chain)>>, !.p = 1,
                            !.pc = "boot_read"]
    /\ UNCHANGED exporter

\* lines 109-112: the head is read, or an RPC call fails.
StepperBootRead ==
    /\ tool.script = "stepper"
    /\ tool.pc = "boot_read"
    /\ \/ tool' = [tool EXCEPT !.raised = TRUE, !.pc = "boot_stop"]
       \/ tool' = [tool EXCEPT !.head_ts = latest_timestamp(tool.chain), !.pc = "boot_stop"]
    /\ UNCHANGED exporter

\* lines 113-116
StepperBootStop ==
    /\ tool.script = "stepper"
    /\ tool.pc = "boot_stop"
    /\ \E heeds \in BOOLEAN :
          tool' = [tool EXCEPT !.geths[tool.p] = stop_geth(@, heeds),
                               !.next_time = tool.head_ts + tool.step_s,
                               !.pc = IF tool.raised THEN "crashed" ELSE "loop"]
    /\ UNCHANGED exporter

\* lines 120-122
StepperStart ==
    /\ tool.script = "stepper"
    /\ tool.pc = "loop"
    /\ Len(tool.chain) < MaxChain
    /\ tool' = [tool EXCEPT !.geths = Append(@, start_geth(Some(tool.next_time), tool.chain)),
                            !.p = Len(tool.geths) + 1, !.pc = "wait"]
    /\ UNCHANGED exporter

\* lines 124-126
StepperWait ==
    /\ tool.script = "stepper"
    /\ tool.pc = "wait"
    /\ \/ tool' = [tool EXCEPT !.raised = TRUE, !.pc = "finally"]
       \/ tool' = [tool EXCEPT !.start_bn = eth_block_number(tool.chain), !.pc = "inner"]
    /\ UNCHANGED exporter

\* lines 128-135: a pass of the inner loop that ends it (one that sees no
\* new block changes nothing).
StepperInner ==
    /\ tool.script = "stepper"
    /\ tool.pc = "inner"
    /\ \/ tool' = [tool EXCEPT !.raised = TRUE, !.pc = "finally"]
       \/ /\ eth_block_number(tool.chain) > tool.start_bn
          /\ tool' = [tool EXCEPT !.next_time = latest_timestamp(tool.chain) + tool.step_s,
                                  !.pc = "finally"]
    /\ UNCHANGED exporter

\* lines 139-140
StepperFinally ==
    /\ tool.script = "stepper"
    /\ tool.pc = "finally"
    /\ \E heeds \in BOOLEAN :
          tool' = [tool EXCEPT !.geths[tool.p] = stop_geth(@, heeds),
                               !.pc = IF tool.raised THEN "crashed" ELSE "loop"]
    /\ UNCHANGED exporter

\* Ctrl-C inside a try block: lines 136-138 and 140 in the loop, 113-114 in
\* the boot.
StepperInterrupt ==
    /\ tool.script = "stepper"
    /\ tool.pc \in StepperTry
    /\ \E heeds \in BOOLEAN :
          tool' = [tool EXCEPT !.geths[tool.p] = stop_geth(@, heeds), !.pc = "interrupted"]
    /\ UNCHANGED exporter

\* The running geth seals a block: its timestamp is the clock of the
\* process, and above its parent's.
GethMines ==
    /\ tool.script = "stepper"
    /\ Len(tool.chain) < MaxChain
    /\ \E i \in 1..Len(tool.geths) :
          /\ tool.geths[i].state = "running"
          /\ LET clock == IF tool.geths[i].fake.some THEN tool.geths[i].fake.v ELSE tool.real
             IN  tool' = [tool EXCEPT
                            !.chain = Append(@, Max(latest_timestamp(tool.chain) + 1, clock)),
                            !.geths[i].mined = @ + 1]
    /\ UNCHANGED exporter

NextStepper ==
    StepperBoot \/ StepperBootRead \/ StepperBootStop \/ StepperStart \/ StepperWait
    \/ StepperInner \/ StepperFinally \/ StepperInterrupt \/ GethMines
SpecStepper == InitStepper /\ [][NextStepper]_vars

(***************************************************************************)
(* C40                                                                     *)
(***************************************************************************)
\* The runs under a fake clock that main() stopped after it saw a new block.
CompletedRuns ==
    {i \in 1..Len(tool.geths) :
        /\ tool.geths[i].fake.some
        /\ tool.geths[i].state = "exited"
        /\ (i < tool.p \/ (tool.pc = "loop" /\ ~tool.raised))}

GethsRunning == {i \in 1..Len(tool.geths) : tool.geths[i].state = "running"}

\* C40: each geth run under a fake clock has mined exactly one block when
\* geth is stopped; the fake time of a run is the timestamp of the latest
\* block, as it is when the run starts, plus the step; and every earlier
\* geth has exited when the next is started, also after a failed RPC call
\* or Ctrl-C.
C40_OneBlockPerRun ==
    tool.script = "stepper"
    => /\ \A i \in CompletedRuns : tool.geths[i].mined = 1
       /\ \A i \in 1..Len(tool.geths) :
             tool.geths[i].fake.some
                => tool.geths[i].fake.v = tool.geths[i].parent_ts + tool.step_s
       /\ Cardinality(GethsRunning) <= 1

\* What holds of the code: a run that main() stopped after it saw a new block
\* has mined at least one, and no two geths run at a time.
StepperAtLeastOneBlock ==
    tool.script = "stepper"
    => /\ \A i \in CompletedRuns : tool.geths[i].mined >= 1
       /\ Cardinality(GethsRunning) <= 1
       /\ tool.pc \in {"loop", "crashed", "interrupted"} => GethsRunning = {}

====
